---------------------------- MODULE Spec2Model ----------------------------
(***************************************************************************)
(* A model of the BrainRot language pipeline: BrainRotTokenizer,           *)
(* BrainRotParser, BrainRotInterpreter and the entry point executeBrainRot *)
(* (the interpreter source), driven by the programs of the IDE's           *)
(* EXAMPLE_PROGRAMS and by programs assembled from statement fragments.    *)
(*                                                                         *)
(* A JavaScript string is a sequence of one-character strings, so that     *)
(* scanning, case folding, parseInt, String(n) and concatenation are       *)
(* computed and not assumed.  A JavaScript value is a record [t, n, s]:    *)
(* t is the tag, n the number (or 0/1 for a boolean), s the string.        *)
(* Numbers are the integers, NaN, Infinity and -Infinity; decimal literals *)
(* and inexact quotients are outside the modelled domain.                  *)
(***************************************************************************)
EXTENDS Integers, Sequences, FiniteSets, TLC

VARIABLES
    code,        \* the source text in the editor, which handleRun executes
    variables,   \* BrainRotInterpreter.variables of the long-lived instance
    functions,   \* BrainRotInterpreter.functions of the long-lived instance
    output,      \* BrainRotInterpreter.output of the long-lived instance
    result,      \* what the last entry point returned: [output, error]
    last,        \* the last operation: [op, code, log, ...] (history)
    runs         \* number of operations performed so far (bounded)

vars == <<code, variables, functions, output, result, last, runs>>

----------------------------------------------------------------------------
(* Bounds *)

MaxRuns  == 3     \* operations in one behaviour
MaxStmts == 2     \* statement fragments assembled into one program
MaxN     == 5     \* largest start value of the countdown program
MaxSteps == 4096  \* evaluation budget of one run, in steps of the
                  \* interpreter; a run that exhausts it has not returned
MaxChars == 4
MaxLexemes == 3
MaxParens == 1
MaxDepth == 12    \* calls the host stack holds: one more is a RangeError

----------------------------------------------------------------------------
(* Strings *)

RECURSIVE Contains(_, _)
\* String.prototype.includes on character sequences
Contains(s, sub) ==
    IF Len(sub) > Len(s) THEN FALSE
    ELSE IF SubSeq(s, 1, Len(sub)) = sub THEN TRUE
    ELSE IF s = <<>> THEN FALSE
    ELSE Contains(Tail(s), sub)

DigitChars == <<"0", "1", "2", "3", "4", "5", "6", "7", "8", "9">>

IsDigit(c) == \E i \in 1..10 : DigitChars[i] = c

DigitVal(c) == CHOOSE d \in 0..9 : DigitChars[d + 1] = c

LowerChars == <<"a","b","c","d","e","f","g","h","i","j","k","l","m",
                "n","o","p","q","r","s","t","u","v","w","x","y","z">>
UpperChars == <<"A","B","C","D","E","F","G","H","I","J","K","L","M",
                "N","O","P","Q","R","S","T","U","V","W","X","Y","Z">>

IsLower(c) == \E i \in 1..26 : LowerChars[i] = c
IsUpper(c) == \E i \in 1..26 : UpperChars[i] = c
IsIdentStart(c) == IsLower(c) \/ IsUpper(c) \/ c = "_"
IsIdentPart(c) == IsIdentStart(c) \/ IsDigit(c)

\* String.prototype.toLowerCase, one character
LowerChar(c) ==
    IF IsUpper(c) THEN LowerChars[CHOOSE i \in 1..26 : UpperChars[i] = c]
    ELSE c

ToLowerCase(s) == [i \in 1..Len(s) |-> LowerChar(s[i])]

RECURSIVE NatToStr(_)
NatToStr(n) ==
    IF n < 10 THEN <<DigitChars[n + 1]>>
    ELSE NatToStr(n \div 10) \o <<DigitChars[(n % 10) + 1]>>

\* String(n) for an integer n
IntToStr(n) == IF n < 0 THEN <<"-">> \o NatToStr(0 - n) ELSE NatToStr(n)

RECURSIVE DigitsToNat(_, _)
DigitsToNat(s, acc) ==
    IF s = <<>> THEN acc
    ELSE DigitsToNat(Tail(s), acc * 10 + DigitVal(Head(s)))

----------------------------------------------------------------------------
(* Names the code spells as string literals *)

s_MOLD      == <<"M","O","L","D">>
s_ROTT      == <<"R","O","T","T">>
s_SPIN      == <<"S","P","I","N">>
s_IFROT     == <<"I","F","R","O","T">>
s_ELSED     == <<"E","L","S","E","D">>
s_FNROT     == <<"F","N","R","O","T">>
s_ANDROT    == <<"A","N","D","R","O","T">>
s_ORROT     == <<"O","R","R","O","T">>
s_NOTROT    == <<"N","O","T","R","O","T">>
s_RETROT    == <<"R","E","T","R","O","T">>
s_PLUS      == <<"P","L","U","S">>
s_MINUS     == <<"M","I","N","U","S">>
s_MULTIPLY  == <<"M","U","L","T","I","P","L","Y">>
s_DIVIDE    == <<"D","I","V","I","D","E">>
s_ASSIGN    == <<"A","S","S","I","G","N">>
s_GT        == <<"G","T">>
s_LT        == <<"L","T">>
s_NOT       == <<"N","O","T">>
s_EQ        == <<"E","Q">>
s_NEQ       == <<"N","E","Q">>
s_LPAREN    == <<"L","P","A","R","E","N">>
s_RPAREN    == <<"R","P","A","R","E","N">>
s_LBRACE    == <<"L","B","R","A","C","E">>
s_RBRACE    == <<"R","B","R","A","C","E">>
s_SEMICOLON == <<"S","E","M","I","C","O","L","O","N">>
s_COMMA     == <<"C","O","M","M","A">>

----------------------------------------------------------------------------
(* BrainRotTokenizer.  tz is [position, line, column]. *)

\* the keywords map: the keyword of a lower-cased word, <<>> when none
keywords(w) ==
    CASE w = ToLowerCase(s_MOLD)   -> s_MOLD
      [] w = ToLowerCase(s_ROTT)   -> s_ROTT
      [] w = ToLowerCase(s_SPIN)   -> s_SPIN
      [] w = ToLowerCase(s_IFROT)  -> s_IFROT
      [] w = ToLowerCase(s_ELSED)  -> s_ELSED
      [] w = ToLowerCase(s_FNROT)  -> s_FNROT
      [] w = ToLowerCase(s_ANDROT) -> s_ANDROT
      [] w = ToLowerCase(s_ORROT)  -> s_ORROT
      [] w = ToLowerCase(s_NOTROT) -> s_NOTROT
      [] w = ToLowerCase(s_RETROT) -> s_RETROT
      [] OTHER -> <<>>

\* the operators record of nextToken: <<>> when the character has no entry
operators(c) ==
    CASE c = "+" -> s_PLUS
      [] c = "-" -> s_MINUS
      [] c = "*" -> s_MULTIPLY
      [] c = "/" -> s_DIVIDE
      [] c = "=" -> s_ASSIGN
      [] c = ">" -> s_GT
      [] c = "<" -> s_LT
      [] c = "!" -> s_NOT
      [] c = "(" -> s_LPAREN
      [] c = ")" -> s_RPAREN
      [] c = "{" -> s_LBRACE
      [] c = "}" -> s_RBRACE
      [] c = ";" -> s_SEMICOLON
      [] c = "," -> s_COMMA
      [] OTHER -> <<>>

TzInit == [position |-> 0, line |-> 1, column |-> 1]

\* BrainRotTokenizer.peek(offset): "" past the end of the input
TzPeek(input, tz, offset) ==
    IF tz.position + offset < Len(input)
    THEN input[tz.position + offset + 1] ELSE ""

\* advance() that leaves the tokenizer where it is
TzStay(input, tz) == tz

\* BrainRotTokenizer.advance
TzAdvance(input, tz) ==
    IF tz.position < Len(input)
    THEN IF input[tz.position + 1] = "\n"
         THEN [position |-> tz.position + 1, line |-> tz.line + 1, column |-> 1]
         ELSE [position |-> tz.position + 1, line |-> tz.line,
               column |-> tz.column + 1]
    ELSE tz

\* The loops of the tokenizer run by halves: xLoop(input, n, r) is at most n
\* iterations of the loop from r on, and r.done is set where the loop ends.
\* Every iteration consumes a character, so the characters left bound n.

Left(input, tz) == Len(input) - tz.position + 1

\* one iteration of the loop of skipWhitespace, on r = [tz, done]
skipWhitespaceStep(input, r) ==
    IF r.tz.position < Len(input)
       /\ input[r.tz.position + 1] \in {" ", "\t", "\n", "\r"}
    THEN [tz |-> TzAdvance(input, r.tz), done |-> FALSE]
    ELSE [r EXCEPT !.done = TRUE]

RECURSIVE skipWhitespaceLoop(_, _, _)
skipWhitespaceLoop(input, n, r) ==
    IF n <= 1 THEN skipWhitespaceStep(input, r)
    ELSE LET h == skipWhitespaceLoop(input, n \div 2, r) IN
         IF h.done THEN h ELSE skipWhitespaceLoop(input, n - (n \div 2), h)

skipWhitespace(input, tz) ==
    skipWhitespaceLoop(input, Left(input, tz), [tz |-> tz, done |-> FALSE]).tz

\* one iteration of the loop of skipComment, on r = [tz, done]
skipCommentStep(input, r) ==
    IF r.tz.position < Len(input) /\ input[r.tz.position + 1] # "\n"
    THEN [tz |-> TzAdvance(input, r.tz), done |-> FALSE]
    ELSE [r EXCEPT !.done = TRUE]

RECURSIVE skipCommentLoop(_, _, _)
skipCommentLoop(input, n, r) ==
    IF n <= 1 THEN skipCommentStep(input, r)
    ELSE LET h == skipCommentLoop(input, n \div 2, r) IN
         IF h.done THEN h ELSE skipCommentLoop(input, n - (n \div 2), h)

skipComment(input, tz) ==
    skipCommentLoop(input, Left(input, tz), [tz |-> tz, done |-> FALSE]).tz

Token(type, value, line, column) ==
    [type |-> type, value |-> value, line |-> line, column |-> column]

\* one iteration of the loop of readNumber, on r = [tz, value, hasDot, done]
readNumberStep(input, r) ==
    LET char == TzPeek(input, r.tz, 0) IN
    IF r.tz.position < Len(input) /\ IsDigit(char)
    THEN [r EXCEPT !.tz = TzAdvance(input, r.tz), !.value = Append(@, char)]
    ELSE IF r.tz.position < Len(input) /\ char = "." /\ ~r.hasDot
    THEN [r EXCEPT !.tz = TzAdvance(input, r.tz), !.value = Append(@, char),
                   !.hasDot = TRUE]
    ELSE [r EXCEPT !.done = TRUE]

RECURSIVE readNumberLoop(_, _, _)
readNumberLoop(input, n, r) ==
    IF n <= 1 THEN readNumberStep(input, r)
    ELSE LET h == readNumberLoop(input, n \div 2, r) IN
         IF h.done THEN h ELSE readNumberLoop(input, n - (n \div 2), h)

readNumber(input, tz, line, column) ==
    LET r == readNumberLoop(input, Left(input, tz),
                 [tz |-> tz, value |-> <<>>, hasDot |-> FALSE, done |-> FALSE])
    IN [tz |-> r.tz, token |-> Token("NUMBER", r.value, line, column),
        some |-> TRUE]

\* the switch on the escaped character of readString
Unescape(escaped, quote) ==
    CASE escaped = "n"  -> <<"\n">>
      [] escaped = "t"  -> <<"\t">>
      [] escaped = "r"  -> <<"\r">>
      [] escaped = "\\" -> <<"\\">>
      [] escaped = quote -> <<quote>>
      [] escaped = "" -> <<>>
      [] OTHER -> <<escaped>>

\* one iteration of the loop of readString, on r = [tz, value, done]
readStringStep(input, r, quote) ==
    IF r.tz.position < Len(input) /\ TzPeek(input, r.tz, 0) # quote
    THEN IF TzPeek(input, r.tz, 0) = "\\"
         THEN LET t1 == TzAdvance(input, r.tz) IN
              [r EXCEPT !.tz = TzAdvance(input, t1),
                        !.value = @ \o Unescape(TzPeek(input, t1, 0), quote)]
         ELSE [r EXCEPT !.tz = TzAdvance(input, r.tz),
                        !.value = Append(@, TzPeek(input, r.tz, 0))]
    ELSE [r EXCEPT !.done = TRUE]

RECURSIVE readStringLoop(_, _, _, _)
readStringLoop(input, n, r, quote) ==
    IF n <= 1 THEN readStringStep(input, r, quote)
    ELSE LET h == readStringLoop(input, n \div 2, r, quote) IN
         IF h.done THEN h
         ELSE readStringLoop(input, n - (n \div 2), h, quote)

readString(input, tz, line, column) ==
    LET quote == TzPeek(input, tz, 0)
        r == readStringLoop(input, Left(input, tz),
                 [tz |-> TzAdvance(input, tz), value |-> <<>>, done |-> FALSE],
                 quote)
        t2 == IF TzPeek(input, r.tz, 0) = quote THEN TzAdvance(input, r.tz)
              ELSE r.tz
    IN [tz |-> t2, token |-> Token("STRING", r.value, line, column), some |-> TRUE]

\* one iteration of the loop of readIdentifier, on r = [tz, value, done]
readIdentifierStep(input, r) ==
    IF r.tz.position < Len(input) /\ IsIdentPart(TzPeek(input, r.tz, 0))
    THEN [r EXCEPT !.tz = TzAdvance(input, r.tz),
                   !.value = Append(@, TzPeek(input, r.tz, 0))]
    ELSE [r EXCEPT !.done = TRUE]

RECURSIVE readIdentifierLoop(_, _, _)
readIdentifierLoop(input, n, r) ==
    IF n <= 1 THEN readIdentifierStep(input, r)
    ELSE LET h == readIdentifierLoop(input, n \div 2, r) IN
         IF h.done THEN h ELSE readIdentifierLoop(input, n - (n \div 2), h)

readIdentifier(input, tz, line, column) ==
    LET r == readIdentifierLoop(input, Left(input, tz),
                                [tz |-> tz, value |-> <<>>, done |-> FALSE])
        keyword == keywords(ToLowerCase(r.value))
    IN [tz |-> r.tz, some |-> TRUE,
        token |-> Token(IF keyword # <<>> THEN "KEYWORD" ELSE "IDENTIFIER",
                        IF keyword # <<>> THEN keyword ELSE r.value,
                        line, column)]

NoToken == Token("NONE", <<>>, 0, 0)

\* BrainRotTokenizer.nextToken: [tz, token, some]; some = FALSE is the null
\* returned for an unknown character
nextToken(input, tz) ==
    LET char == TzPeek(input, tz, 0)
        line == tz.line
        column == tz.column
        a1 == TzAdvance(input, tz)
        a2 == TzAdvance(input, a1)
        op == operators(char)
    IN  IF IsDigit(char) THEN readNumber(input, tz, line, column)
        ELSE IF char = "\"" \/ char = "'" THEN readString(input, tz, line, column)
        ELSE IF IsIdentStart(char) THEN readIdentifier(input, tz, line, column)
        ELSE IF char = "=" /\ TzPeek(input, tz, 1) = "="
        THEN [tz |-> a2, some |-> TRUE,
              token |-> Token("OPERATOR", s_EQ, line, column)]
        ELSE IF char = "!" /\ TzPeek(input, tz, 1) = "="
        THEN [tz |-> a2, some |-> TRUE,
              token |-> Token("OPERATOR", s_NEQ, line, column)]
        ELSE IF op # <<>>
        THEN [tz |-> a1, some |-> TRUE,
              token |-> Token(IF Contains(op, <<"P","A","R","E","N">>)
                                 \/ Contains(op, <<"B","R","A","C","E">>)
                                 \/ op = s_SEMICOLON \/ op = s_COMMA
                              THEN "DELIMITER" ELSE "OPERATOR",
                              op, line, column)]
        ELSE [tz |-> a1, some |-> FALSE, token |-> NoToken]

\* const token = this.nextToken(); if (token) tokens.push(token): r, what
\* nextToken returns and the tokenizer it leaves.  trace, as history, holds the
\* position at the end of each iteration of the while loop.
Pushed(s, r) ==
    [tz |-> r.tz,
     tokens |-> IF r.some THEN Append(s.tokens, r.token) ELSE s.tokens,
     done |-> FALSE, trace |-> Append(s.trace, r.tz.position)]

\* the body of the while loop of tokenize after skipWhitespace(), which left
\* the tokenizer tz: break, a comment (continue), or a token
tokenizeBody(input, s, tz) ==
    IF tz.position >= Len(input)
    THEN [s EXCEPT !.tz = tz, !.done = TRUE, !.trace = Append(@, tz.position)]
    ELSE IF TzPeek(input, tz, 0) = "#" /\ TzPeek(input, tz, 1) = "r"
            /\ TzPeek(input, tz, 2) = "o" /\ TzPeek(input, tz, 3) = "t"
    THEN Pushed(s, [tz |-> skipComment(input, tz), some |-> FALSE,
                    token |-> NoToken])
    ELSE Pushed(s, nextToken(input, tz))

tokenizeStep(input, s) ==
    IF s.tz.position < Len(input)
    THEN tokenizeBody(input, s, skipWhitespace(input, s.tz))
    ELSE [s EXCEPT !.done = TRUE]

RECURSIVE tokenizeLoop(_, _, _)
tokenizeLoop(input, n, s) ==
    IF n <= 1 THEN tokenizeStep(input, s)
    ELSE LET h == tokenizeLoop(input, n \div 2, s) IN
         IF h.done THEN h ELSE tokenizeLoop(input, n - (n \div 2), h)

\* the while loop of tokenize: the state it is in after at most
\* Len(input) + 1 iterations, which end the loop (done) when every iteration
\* consumes a character
tokenizeRun(input) ==
    tokenizeLoop(input, Len(input) + 1,
                 [tz |-> TzInit, tokens |-> <<>>, done |-> FALSE, trace |-> <<>>])

\* tokens.push({ type: 'EOF', ... }); return tokens
tokenizeEnd(s) ==
    Append(s.tokens, Token("EOF", <<>>, s.tz.line, s.tz.column))

\* BrainRotTokenizer.tokenize
tokenize(input) == tokenizeEnd(tokenizeRun(input))

----------------------------------------------------------------------------
(* Values *)

Num(n)    == [t |-> "number", n |-> n, s |-> <<>>]
Str(s)    == [t |-> "string", n |-> 0, s |-> s]
Bool(b)   == [t |-> "boolean", n |-> IF b THEN 1 ELSE 0, s |-> <<>>]
Dec(n, f) == [t |-> "decimal", n |-> n, s |-> f]   \* n.f with f # <<>>
Null      == [t |-> "null", n |-> 0, s |-> <<>>]
Undefined == [t |-> "undefined", n |-> 0, s |-> <<>>]
NaN       == [t |-> "nan", n |-> 0, s |-> <<>>]
Infinity  == [t |-> "inf", n |-> 0, s |-> <<>>]
NegInfinity == [t |-> "ninf", n |-> 0, s |-> <<>>]

RECURSIVE TrimZeros(_)
TrimZeros(f) ==
    IF f # <<>> /\ f[Len(f)] = "0" THEN TrimZeros(SubSeq(f, 1, Len(f) - 1))
    ELSE f

\* value.includes('.') ? parseFloat(value) : parseInt(value) of primary, for
\* the text of a NUMBER token (digits with at most one dot)
ParseNumber(value) ==
    IF Contains(value, <<".">>)
    THEN LET d == CHOOSE i \in 1..Len(value) : value[i] = "."
             n == DigitsToNat(SubSeq(value, 1, d - 1), 0)
             f == TrimZeros(SubSeq(value, d + 1, Len(value)))
         IN IF f = <<>> THEN Num(n) ELSE Dec(n, f)
    ELSE Num(DigitsToNat(value, 0))

----------------------------------------------------------------------------
(* BrainRotParser.  The parser's position is threaded through the results: *)
(* [ok, pos, node]; ok = FALSE is a thrown Error, with the position the    *)
(* parser had when it was thrown.                                          *)

\* the name of a CallExpression whose callee has no name property
UndefinedName == <<"undefined">>

NoNode == [type |-> "None"]

Ok(pos, node)  == [ok |-> TRUE, pos |-> pos, node |-> node]
Throw(pos)     == [ok |-> FALSE, pos |-> pos, node |-> NoNode]

PPeek(tokens, pos)     == tokens[pos + 1]
PPrevious(tokens, pos) == tokens[pos]
isAtEnd(tokens, pos)   == PPeek(tokens, pos).type = "EOF"
PAdvance(tokens, pos)  == IF ~isAtEnd(tokens, pos) THEN pos + 1 ELSE pos

\* check(type, value)
check(tokens, pos, type, value) ==
    IF isAtEnd(tokens, pos) THEN FALSE
    ELSE PPeek(tokens, pos).type = type /\ PPeek(tokens, pos).value = value

\* check(type) with value undefined
checkType(tokens, pos, type) ==
    IF isAtEnd(tokens, pos) THEN FALSE ELSE PPeek(tokens, pos).type = type

\* consume(type, value, message): [ok, pos]
consume(tokens, pos, type, value) ==
    IF value = <<>>
    THEN IF PPeek(tokens, pos).type = type
         THEN Ok(PAdvance(tokens, pos), NoNode) ELSE Throw(pos)
    ELSE IF check(tokens, pos, type, value)
         THEN Ok(PAdvance(tokens, pos), NoNode) ELSE Throw(pos)

\* r, the result of a call, and then the code after the call, Rest, unless
\* the call has thrown
Bind(r, Rest(_)) == IF ~r.ok THEN r ELSE Rest(r)

Literal(v)    == [type |-> "Literal", value |-> v]
Identifier(n) == [type |-> "Identifier", name |-> n]
UnaryExpression(op, e) ==
    [type |-> "UnaryExpression", operator |-> op, operand |-> e]
BinaryExpression(op, l, r) ==
    [type |-> "BinaryExpression", operator |-> op, left |-> l, right |-> r]
CallExpression(n, args) ==
    [type |-> "CallExpression", name |-> n, arguments |-> args]

\* (callee as Identifier).name
CalleeName(callee) ==
    IF callee.type \in {"Identifier", "CallExpression"} THEN callee.name
    ELSE UndefinedName

\* the levels with the operators of term and factor exchanged
LevelOpsExchanged(level) ==
    CASE level = 1 -> <<<<"KEYWORD", s_ORROT>>>>
      [] level = 2 -> <<<<"KEYWORD", s_ANDROT>>>>
      [] level = 3 -> <<<<"OPERATOR", s_EQ>>, <<"OPERATOR", s_NEQ>>>>
      [] level = 4 -> <<<<"OPERATOR", s_GT>>, <<"OPERATOR", s_LT>>>>
      [] level = 5 -> <<<<"OPERATOR", s_MULTIPLY>>, <<"OPERATOR", s_DIVIDE>>>>
      [] level = 6 -> <<<<"OPERATOR", s_PLUS>>, <<"OPERATOR", s_MINUS>>>>

\* the operators matched by each binary level, lowest precedence first
LevelOps(level) ==
    CASE level = 1 -> <<<<"KEYWORD", s_ORROT>>>>
      [] level = 2 -> <<<<"KEYWORD", s_ANDROT>>>>
      [] level = 3 -> <<<<"OPERATOR", s_EQ>>, <<"OPERATOR", s_NEQ>>>>
      [] level = 4 -> <<<<"OPERATOR", s_GT>>, <<"OPERATOR", s_LT>>>>
      [] level = 5 -> <<<<"OPERATOR", s_PLUS>>, <<"OPERATOR", s_MINUS>>>>
      [] level = 6 -> <<<<"OPERATOR", s_MULTIPLY>>, <<"OPERATOR", s_DIVIDE>>>>

\* match(...types) for a list of (type, value) pairs; a match advances by one
match(tokens, pos, pairs) ==
    \E i \in 1..Len(pairs) : check(tokens, pos, pairs[i][1], pairs[i][2])

\* The methods of the parser call each other through descend(method, ..),
\* defined after them: this.expression() is descend("expression", ..).
RECURSIVE descend(_, _, _), finishCall(_, _, _), primary(_, _), call(_, _),
          factor(_, _), term(_, _), comparison(_, _), equality(_, _),
          logicalAnd(_, _), logicalOr(_, _), expression(_, _),
          variableDeclaration(_, _), printStatement(_, _), whileLoop(_, _),
          elseBranch(_, _, _, _), ifStatement(_, _), functionDeclaration(_, _),
          statement(_, _)

\* the method that parses the operands of a binary level
LevelOperand(level) ==
    CASE level = 1 -> "logicalAnd"
      [] level = 2 -> "equality"
      [] level = 3 -> "comparison"
      [] level = 4 -> "term"
      [] level = 5 -> "factor"
      [] level = 6 -> "unary"

RECURSIVE binaryLoop(_, _, _)
\* the while (this.match(...)) loop shared by logicalOr .. factor; r is expr
binaryLoop(level, tokens, r) ==
    IF ~r.ok THEN r
    ELSE IF match(tokens, r.pos, LevelOps(level))
    THEN Bind(descend(LevelOperand(level), tokens, r.pos + 1), LAMBDA right :
         binaryLoop(level, tokens,
             Ok(right.pos, BinaryExpression(PPrevious(tokens, r.pos + 1).value,
                                            r.node, right.node))))
    ELSE r

RECURSIVE argumentsLoop(_, _, _)
\* the do { args.push(expression()) } while (match(COMMA)) loop
argumentsLoop(tokens, pos, args) ==
    Bind(descend("expression", tokens, pos), LAMBDA e :
    IF check(tokens, e.pos, "DELIMITER", s_COMMA)
    THEN argumentsLoop(tokens, e.pos + 1, Append(args, e.node))
    ELSE Ok(e.pos, Append(args, e.node)))

finishCall(tokens, pos, callee) ==
    Bind(IF ~check(tokens, pos, "DELIMITER", s_RPAREN)
         THEN argumentsLoop(tokens, pos, <<>>) ELSE Ok(pos, <<>>), LAMBDA a :
    Bind(consume(tokens, a.pos, "DELIMITER", s_RPAREN), LAMBDA c :
    Ok(c.pos, CallExpression(CalleeName(callee), a.node))))

primary(tokens, pos) ==
    IF checkType(tokens, pos, "NUMBER")
    THEN Ok(pos + 1, Literal(ParseNumber(PPeek(tokens, pos).value)))
    ELSE IF checkType(tokens, pos, "STRING")
    THEN Ok(pos + 1, Literal(Str(PPeek(tokens, pos).value)))
    ELSE IF checkType(tokens, pos, "IDENTIFIER")
    THEN Ok(pos + 1, Identifier(PPeek(tokens, pos).value))
    ELSE IF check(tokens, pos, "DELIMITER", s_LPAREN)
    THEN Bind(descend("expression", tokens, pos + 1), LAMBDA e :
         Bind(consume(tokens, e.pos, "DELIMITER", s_RPAREN), LAMBDA c :
         Ok(c.pos, e.node)))
    ELSE Throw(pos)

RECURSIVE callLoop(_, _)
\* the while (true) loop of call; r is expr
callLoop(tokens, r) ==
    IF ~r.ok THEN r
    ELSE IF check(tokens, r.pos, "DELIMITER", s_LPAREN)
    THEN callLoop(tokens, finishCall(tokens, r.pos + 1, r.node))
    ELSE r

call(tokens, pos) == callLoop(tokens, primary(tokens, pos))

RECURSIVE unary(_, _)
unary(tokens, pos) ==
    IF match(tokens, pos, <<<<"OPERATOR", s_NOT>>, <<"KEYWORD", s_NOTROT>>,
                            <<"OPERATOR", s_MINUS>>>>)
    THEN Bind(unary(tokens, pos + 1), LAMBDA right :
         Ok(right.pos,
            UnaryExpression(PPrevious(tokens, pos + 1).value, right.node)))
    ELSE call(tokens, pos)

factor(tokens, pos)     == binaryLoop(6, tokens, unary(tokens, pos))
term(tokens, pos)       == binaryLoop(5, tokens, factor(tokens, pos))
comparison(tokens, pos) == binaryLoop(4, tokens, term(tokens, pos))
equality(tokens, pos)   == binaryLoop(3, tokens, comparison(tokens, pos))
logicalAnd(tokens, pos) == binaryLoop(2, tokens, equality(tokens, pos))
logicalOr(tokens, pos)  == binaryLoop(1, tokens, logicalAnd(tokens, pos))
expression(tokens, pos) == logicalOr(tokens, pos)

VariableDeclaration(n, v) ==
    [type |-> "VariableDeclaration", name |-> n, value |-> v]
PrintStatement(e) == [type |-> "PrintStatement", expression |-> e]
WhileLoop(c, b) == [type |-> "WhileLoop", condition |-> c, body |-> b]
\* elseBody undefined is hasElse = FALSE
IfStatement(c, t, hasElse, e) ==
    [type |-> "IfStatement", condition |-> c, thenBody |-> t,
     hasElse |-> hasElse, elseBody |-> e]
FunctionDeclaration(n, params, b) ==
    [type |-> "FunctionDeclaration", name |-> n, parameters |-> params,
     body |-> b]

RECURSIVE bodyLoop(_, _, _), parametersLoop(_, _, _)

\* while (!check(RBRACE) && !isAtEnd()) body.push(statement()); the node of
\* the result is the list of statements
bodyLoop(tokens, pos, body) ==
    IF ~check(tokens, pos, "DELIMITER", s_RBRACE) /\ ~isAtEnd(tokens, pos)
    THEN Bind(descend("statement", tokens, pos), LAMBDA st :
         bodyLoop(tokens, st.pos, Append(body, st.node)))
    ELSE Ok(pos, body)

variableDeclaration(tokens, pos) ==
    Bind(consume(tokens, pos, "IDENTIFIER", <<>>), LAMBDA name :
    Bind(consume(tokens, name.pos, "OPERATOR", s_ASSIGN), LAMBDA c1 :
    Bind(expression(tokens, c1.pos), LAMBDA value :
    Bind(consume(tokens, value.pos, "DELIMITER", s_SEMICOLON), LAMBDA c2 :
    Ok(c2.pos, VariableDeclaration(PPrevious(tokens, name.pos).value,
                                   value.node))))))

printStatement(tokens, pos) ==
    Bind(expression(tokens, pos), LAMBDA e :
    Bind(consume(tokens, e.pos, "DELIMITER", s_SEMICOLON), LAMBDA c :
    Ok(c.pos, PrintStatement(e.node))))

whileLoop(tokens, pos) ==
    Bind(expression(tokens, pos), LAMBDA condition :
    Bind(consume(tokens, condition.pos, "DELIMITER", s_LBRACE), LAMBDA c1 :
    Bind(bodyLoop(tokens, c1.pos, <<>>), LAMBDA body :
    Bind(consume(tokens, body.pos, "DELIMITER", s_RBRACE), LAMBDA c2 :
    Ok(c2.pos, WhileLoop(condition.node, body.node))))))

\* the elsed part of ifStatement
elseBranch(tokens, pos, condition, thenBody) ==
    IF check(tokens, pos, "KEYWORD", s_ELSED)
    THEN Bind(consume(tokens, pos + 1, "DELIMITER", s_LBRACE), LAMBDA c3 :
         Bind(bodyLoop(tokens, c3.pos, <<>>), LAMBDA elseBody :
         Bind(consume(tokens, elseBody.pos, "DELIMITER", s_RBRACE), LAMBDA c4 :
         Ok(c4.pos, IfStatement(condition, thenBody, TRUE, elseBody.node)))))
    ELSE Ok(pos, IfStatement(condition, thenBody, FALSE, <<>>))

ifStatement(tokens, pos) ==
    Bind(expression(tokens, pos), LAMBDA condition :
    Bind(consume(tokens, condition.pos, "DELIMITER", s_LBRACE), LAMBDA c1 :
    Bind(bodyLoop(tokens, c1.pos, <<>>), LAMBDA thenBody :
    Bind(consume(tokens, thenBody.pos, "DELIMITER", s_RBRACE), LAMBDA c2 :
    elseBranch(tokens, c2.pos, condition.node, thenBody.node)))))

\* do { parameters.push(consume(IDENTIFIER)) } while (match(COMMA))
parametersLoop(tokens, pos, parameters) ==
    Bind(consume(tokens, pos, "IDENTIFIER", <<>>), LAMBDA param :
    IF check(tokens, param.pos, "DELIMITER", s_COMMA)
    THEN parametersLoop(tokens, param.pos + 1,
                        Append(parameters, PPrevious(tokens, param.pos).value))
    ELSE Ok(param.pos, Append(parameters, PPrevious(tokens, param.pos).value)))

functionDeclaration(tokens, pos) ==
    Bind(consume(tokens, pos, "IDENTIFIER", <<>>), LAMBDA name :
    Bind(consume(tokens, name.pos, "DELIMITER", s_LPAREN), LAMBDA c1 :
    Bind(IF ~check(tokens, c1.pos, "DELIMITER", s_RPAREN)
         THEN parametersLoop(tokens, c1.pos, <<>>)
         ELSE Ok(c1.pos, <<>>), LAMBDA parameters :
    Bind(consume(tokens, parameters.pos, "DELIMITER", s_RPAREN), LAMBDA c2 :
    Bind(consume(tokens, c2.pos, "DELIMITER", s_LBRACE), LAMBDA c3 :
    Bind(bodyLoop(tokens, c3.pos, <<>>), LAMBDA body :
    Bind(consume(tokens, body.pos, "DELIMITER", s_RBRACE), LAMBDA c4 :
    Ok(c4.pos, FunctionDeclaration(PPrevious(tokens, name.pos).value,
                                   parameters.node, body.node)))))))))

statement(tokens, pos) ==
    IF check(tokens, pos, "KEYWORD", s_MOLD)
    THEN variableDeclaration(tokens, pos + 1)
    ELSE IF check(tokens, pos, "KEYWORD", s_ROTT)
    THEN printStatement(tokens, pos + 1)
    ELSE IF check(tokens, pos, "KEYWORD", s_SPIN)
    THEN whileLoop(tokens, pos + 1)
    ELSE IF check(tokens, pos, "KEYWORD", s_IFROT)
    THEN ifStatement(tokens, pos + 1)
    ELSE IF check(tokens, pos, "KEYWORD", s_FNROT)
    THEN functionDeclaration(tokens, pos + 1)
    ELSE Bind(expression(tokens, pos), LAMBDA expr :
         Bind(consume(tokens, expr.pos, "DELIMITER", s_SEMICOLON), LAMBDA c :
         Ok(c.pos, expr.node)))

descend(method, tokens, pos) ==
    CASE method = "statement"  -> statement(tokens, pos)
      [] method = "expression" -> expression(tokens, pos)
      [] method = "logicalAnd" -> logicalAnd(tokens, pos)
      [] method = "equality"   -> equality(tokens, pos)
      [] method = "comparison" -> comparison(tokens, pos)
      [] method = "term"       -> term(tokens, pos)
      [] method = "factor"     -> factor(tokens, pos)
      [] method = "unary"      -> unary(tokens, pos)

RECURSIVE synchronizeLoopPastBlock(_, _)
\* a loop of synchronize that goes on to the token after the next }
synchronizeLoopPastBlock(tokens, pos) ==
    IF ~isAtEnd(tokens, pos)
    THEN IF pos = 0 THEN Throw(pos)
         ELSE IF PPrevious(tokens, pos).value = s_RBRACE THEN Ok(pos, NoNode)
         ELSE synchronizeLoopPastBlock(tokens, PAdvance(tokens, pos))
    ELSE Ok(pos, NoNode)

RECURSIVE synchronizeLoop(_, _)
\* the while loop of synchronize: [ok, pos], the position it leaves the parser
\* at; previous() at position 0 is undefined, and reading its value throws a
\* TypeError (ok = FALSE)
synchronizeLoop(tokens, pos) ==
    IF ~isAtEnd(tokens, pos)
    THEN IF pos = 0 THEN Throw(pos)
         ELSE IF PPrevious(tokens, pos).value = s_SEMICOLON THEN Ok(pos, NoNode)
         ELSE IF PPeek(tokens, pos).value \in {s_MOLD, s_ROTT, s_SPIN, s_IFROT,
                                               s_FNROT}
         THEN Ok(pos, NoNode)
         ELSE synchronizeLoop(tokens, PAdvance(tokens, pos))
    ELSE Ok(pos, NoNode)

\* synchronize without its first advance()
synchronizeInPlace(tokens, pos) == synchronizeLoop(tokens, pos)

\* BrainRotParser.synchronize: [ok, pos]
synchronize(tokens, pos) == synchronizeLoop(tokens, PAdvance(tokens, pos))

\* The parser at the top of the while loop of parse, ps: its position, the
\* statements pushed, ok = FALSE once an Error has left parse, done once the
\* loop has ended and, as history, the positions of the iterations (trace) and
\* the statements dropped (dropped).
ParserInit ==
    [pos |-> 0, statements |-> <<>>, ok |-> TRUE, done |-> FALSE,
     trace |-> <<0>>, dropped |-> 0]

\* a catch block of parse that lets the Error of the statement go on
parseRethrown(ps, sync) ==
    [ps EXCEPT !.ok = FALSE, !.trace = Append(@, sync.pos), !.dropped = @ + 1]

\* the catch block of parse, synchronize() having ended as sync
parseCaught(ps, sync) ==
    [ps EXCEPT !.pos = sync.pos, !.ok = sync.ok, !.trace = Append(@, sync.pos),
               !.dropped = @ + 1]

\* the try and catch of parse: stmt, how statement() has ended
parseNext(tokens, ps, stmt) ==
    IF stmt.ok
    THEN [ps EXCEPT !.pos = stmt.pos, !.statements = Append(@, stmt.node),
                    !.trace = Append(@, stmt.pos)]
    ELSE parseCaught(ps, synchronize(tokens, stmt.pos))

RECURSIVE parseLoop(_, _)
\* the while loop of parse: a statement that throws is dropped and the parser
\* synchronized.  The loop ends within Len(tokens) iterations when every
\* iteration moves the parser forward; it is left, not done, after that many.
parseLoop(tokens, ps) ==
    IF ~ps.ok \/ Len(ps.trace) > Len(tokens) THEN ps
    ELSE IF isAtEnd(tokens, ps.pos) THEN [ps EXCEPT !.done = TRUE]
    ELSE parseLoop(tokens, parseNext(tokens, ps, statement(tokens, ps.pos)))

\* BrainRotParser.parse: the parser it ends in; it returns ps.statements when
\* ps.ok, and throws otherwise
parse(tokens) == parseLoop(tokens, ParserInit)

----------------------------------------------------------------------------
(* The JavaScript operators the interpreter applies to values.  Negative   *)
(* zero is identified with zero.                                           *)

\* the printable ASCII characters in code order, code 32 first, without the
\* grave accent (code 96), which a TLA+ string cannot hold
AsciiChars ==
    <<" ","!","\"","#","$","%","&","'","(",")","*","+",",","-",".","/","0","1","2","3","4","5","6","7","8","9",":",";","<","=",">","?","@","A","B","C","D","E","F","G","H","I","J","K","L","M","N","O","P",
    "Q","R","S","T","U","V","W","X","Y","Z","[","\\","]","^","_","a","b","c","d","e","f","g","h","i","j","k","l","m","n","o","p","q","r","s","t","u","v","w","x","y","z","{","|","}","~">>

CharCode(c) ==
    CASE c = "\t" -> 9 [] c = "\n" -> 10 [] c = "\r" -> 13
      [] OTHER -> LET i == CHOOSE j \in 1..Len(AsciiChars) : AsciiChars[j] = c
                  IN IF i <= 64 THEN 31 + i ELSE 32 + i

RECURSIVE StrLess(_, _)
\* a < b on two strings: by code units, a proper prefix first
StrLess(a, b) ==
    IF b = <<>> THEN FALSE
    ELSE IF a = <<>> THEN TRUE
    ELSE IF Head(a) # Head(b) THEN CharCode(Head(a)) < CharCode(Head(b))
    ELSE StrLess(Tail(a), Tail(b))

IsWhite(c) == c \in {" ", "\t", "\n", "\r"}

RECURSIVE TrimLeft(_)
TrimLeft(s) == IF s # <<>> /\ IsWhite(Head(s)) THEN TrimLeft(Tail(s)) ELSE s

RECURSIVE TrimRight(_)
TrimRight(s) ==
    IF s # <<>> /\ IsWhite(s[Len(s)]) THEN TrimRight(SubSeq(s, 1, Len(s) - 1))
    ELSE s

AllDigits(s) == s # <<>> /\ \A i \in 1..Len(s) : IsDigit(s[i])

\* Number(s) of a string: blank is 0, a run of digits with an optional sign is
\* its value, a text that does not begin like a numeral is NaN (other numeral
\* forms, such as 1.5, 1e3 or 0x10, are outside the modelled domain)
StringToNumber(s0) ==
    LET s == TrimRight(TrimLeft(s0)) IN
    CASE s = <<>> -> Num(0)
      [] AllDigits(s) -> Num(DigitsToNat(s, 0))
      [] s # <<>> /\ Head(s) = "-" /\ AllDigits(Tail(s)) ->
            Num(0 - DigitsToNat(Tail(s), 0))
      [] s # <<>> /\ Head(s) = "+" /\ AllDigits(Tail(s)) ->
            Num(DigitsToNat(Tail(s), 0))
      [] s # <<>> /\ ~IsDigit(Head(s))
            /\ Head(s) \notin {"-", "+", ".", "I"} -> NaN

\* ToNumber of the operators - * / < > and of + without a string operand
ToNumber(v) ==
    CASE v.t \in {"number", "nan", "inf", "ninf"} -> v
      [] v.t = "null" -> Num(0)
      [] v.t = "undefined" -> NaN
      [] v.t = "boolean" -> Num(v.n)
      [] v.t = "string" -> StringToNumber(v.s)

\* String(v), also the conversion of + with a string operand
JsString(v) ==
    CASE v.t = "number" -> IntToStr(v.n)
      [] v.t = "decimal" -> IntToStr(v.n) \o <<".">> \o v.s
      [] v.t = "nan" -> <<"N","a","N">>
      [] v.t = "inf" -> <<"I","n","f","i","n","i","t","y">>
      [] v.t = "ninf" -> <<"-","I","n","f","i","n","i","t","y">>
      [] v.t = "string" -> v.s
      [] v.t = "boolean" -> IF v.n = 1 THEN <<"t","r","u","e">>
                            ELSE <<"f","a","l","s","e">>
      [] v.t = "null" -> <<"n","u","l","l">>
      [] v.t = "undefined" -> <<"u","n","d","e","f","i","n","e","d">>

Sign(x) == IF x.t = "inf" THEN 1 ELSE IF x.t = "ninf" THEN -1
           ELSE IF x.n > 0 THEN 1 ELSE IF x.n < 0 THEN -1 ELSE 0

NumAdd(a, b) ==
    CASE a.t = "nan" \/ b.t = "nan" -> NaN
      [] a.t = "number" /\ b.t = "number" -> Num(a.n + b.n)
      [] a.t = "number" -> b
      [] b.t = "number" -> a
      [] a.t = b.t -> a
      [] OTHER -> NaN

NumNeg(a) ==
    CASE a.t = "number" -> Num(0 - a.n)
      [] a.t = "inf" -> NegInfinity
      [] a.t = "ninf" -> Infinity
      [] a.t = "nan" -> NaN

NumMul(a, b) ==
    CASE a.t = "nan" \/ b.t = "nan" -> NaN
      [] a.t = "number" /\ b.t = "number" -> Num(a.n * b.n)
      [] Sign(a) * Sign(b) = 0 -> NaN
      [] Sign(a) * Sign(b) > 0 -> Infinity
      [] OTHER -> NegInfinity

NumDiv(a, b) ==
    CASE a.t = "nan" \/ b.t = "nan" -> NaN
      [] a.t = "number" /\ b.t = "number" /\ b.n # 0 /\ a.n % b.n = 0 ->
            Num((IF (a.n < 0) = (b.n < 0) THEN 1 ELSE -1)
                * ((IF a.n < 0 THEN 0 - a.n ELSE a.n)
                   \div (IF b.n < 0 THEN 0 - b.n ELSE b.n)))
      [] a.t = "number" /\ b.t = "number" /\ b.n = 0 ->
            IF a.n = 0 THEN NaN ELSE IF a.n > 0 THEN Infinity ELSE NegInfinity
      [] a.t = "number" /\ b.t \in {"inf", "ninf"} -> Num(0)
      [] a.t \in {"inf", "ninf"} /\ b.t \in {"inf", "ninf"} -> NaN
      [] a.t \in {"inf", "ninf"} /\ b.t = "number" ->
            IF (a.t = "inf") = (b.n >= 0) THEN Infinity ELSE NegInfinity

NumLess(a, b) ==
    CASE a.t = "nan" \/ b.t = "nan" -> FALSE
      [] a.t = "number" /\ b.t = "number" -> a.n < b.n
      [] a.t = b.t -> FALSE
      [] OTHER -> a.t = "ninf" \/ b.t = "inf"

JsAdd(l, r) ==
    IF l.t = "string" \/ r.t = "string"
    THEN Str(JsString(l) \o JsString(r))
    ELSE NumAdd(ToNumber(l), ToNumber(r))

JsSub(l, r) == NumAdd(ToNumber(l), NumNeg(ToNumber(r)))
JsMul(l, r) == NumMul(ToNumber(l), ToNumber(r))
JsDiv(l, r) == NumDiv(ToNumber(l), ToNumber(r))

JsLess(l, r) ==
    IF l.t = "string" /\ r.t = "string" THEN StrLess(l.s, r.s)
    ELSE NumLess(ToNumber(l), ToNumber(r))

\* l === r
StrictEq(l, r) == l.t # "nan" /\ l = r

\* BrainRotInterpreter.isTruthy
isTruthy(value) ==
    CASE value.t \in {"null", "undefined"} -> FALSE
      [] value.t = "boolean" -> value.n = 1
      [] value.t = "number" -> value.n # 0
      [] value.t \in {"nan", "inf", "ninf", "decimal"} -> TRUE
      [] value.t = "string" -> Len(value.s) > 0

----------------------------------------------------------------------------
(* BrainRotInterpreter.  A Map is a function; the state of an evaluation   *)
(* is a record st:                                                         *)
(*   variables, functions, output   the fields of the interpreter          *)
(*   status   "ok", "thrown" (an Error is propagating) or "exhausted"      *)
(*            (the evaluation budget ran out: the run has not returned)    *)
(*   message  error.message of the Error thrown                            *)
(*   value    the value returned by the last execute or evaluate           *)
(*   steps    statements executed, calls made and loop tests so far        *)
(*   depth    calls of evaluate(CallExpression) in progress                *)
(*   leaf     the value of the expression of the last print or expression  *)
(*            statement executed, Undefined after a declaration (history)  *)
(*   log      the events of the run, oldest first (history)                *)

MapHas(m, k)    == k \in DOMAIN m
MapSet(m, k, v) == [x \in (DOMAIN m) \cup {k} |-> IF x = k THEN v ELSE m[x]]
EmptyMap        == <<>>

m_UndefinedVariable == <<"U","n","d","e","f","i","n","e","d"," ","v","a","r","i","a","b","l","e",":"," ">>
m_UndefinedFunction == <<"U","n","d","e","f","i","n","e","d"," ","f","u","n","c","t","i","o","n",":"," ">>
m_UnknownOperator   == <<"U","n","k","n","o","w","n"," ","o","p","e","r","a","t","o","r",":"," ">>
m_UnknownExpression == <<"U","n","k","n","o","w","n"," ","e","x","p","r","e","s","s","i","o","n"," ","t","y","p","e",":"," ">>
m_StackExceeded     == <<"M","a","x","i","m","u","m"," ","c","a","l","l"," ","s","t","a","c","k"," ","s","i","z","e"," ","e","x","c","e","e","d","e","d">>
m_BrainRotDetected  == <<"B","r","a","i","n"," ","r","o","t"," ","d","e","t","e","c","t","e","d",":"," ">>

\* the text of a node's type tag, as the template literal renders it
TypeText(type) ==
    CASE type = "UnaryExpression" -> <<"U","n","a","r","y","E","x","p","r","e","s","s","i","o","n">>
      [] type = "None" -> <<"u","n","d","e","f","i","n","e","d">>

\* the text of a call's name in a template literal
NameText(name) == IF name = UndefinedName THEN <<"u","n","d","e","f","i","n","e","d">> ELSE name

Return(st, v)  == [st EXCEPT !.value = v]
Logged(st, ev) == [st EXCEPT !.log = Append(@, ev)]

\* the Error swallowed where it is thrown: the run goes on
ThrowErrorSwallowed(st, msg) ==
    Logged([st EXCEPT !.message = msg], [k |-> "throw", message |-> msg])

\* throw new Error(msg): nothing more runs before the catch of interpret
ThrowError(st, msg) ==
    Logged([st EXCEPT !.status = "thrown", !.message = msg],
           [k |-> "throw", message |-> msg])

\* the switch (binExpr.operator) of evaluate
ApplyBinary(st, operator, left, right) ==
    CASE operator = s_PLUS     -> Return(st, JsAdd(left, right))
      [] operator = s_MINUS    -> Return(st, JsSub(left, right))
      [] operator = s_MULTIPLY -> Return(st, JsMul(left, right))
      [] operator = s_DIVIDE   -> Return(st, JsDiv(left, right))
      [] operator = s_GT       -> Return(st, Bool(JsLess(right, left)))
      [] operator = s_LT       -> Return(st, Bool(JsLess(left, right)))
      [] operator = s_EQ       -> Return(st, Bool(StrictEq(left, right)))
      [] operator = s_NEQ      -> Return(st, Bool(~StrictEq(left, right)))
      [] operator = s_ANDROT   -> Return(st, Bool(isTruthy(left) /\ isTruthy(right)))
      [] operator = s_ORROT    -> Return(st, Bool(isTruthy(left) \/ isTruthy(right)))
      [] OTHER -> ThrowError(st, m_UnknownOperator \o operator)

\* the declaration executed without the table being written
RegisterFunctionSkipped(st, funcDecl) ==
    Logged(st, [k |-> "decl", name |-> funcDecl.name])

\* this.functions.set(funcDecl.name, funcDecl)
RegisterFunction(st, funcDecl) ==
    Logged([st EXCEPT !.functions = MapSet(@, funcDecl.name, funcDecl)],
           [k |-> "decl", name |-> funcDecl.name])

\* const func = this.functions.get(callExpr.name); if (!func) ...
FunctionDefined(st, name) == MapHas(st.functions, name)

\* the restore forgotten: the body's environment stays
RestoreScopeForgotten(st, prevVars) == st

\* this.variables = prevVars
RestoreScope(st, prevVars) == [st EXCEPT !.variables = prevVars]

\* the value execute returns for a spin, ifrot or fnrot statement
CompoundResult(st) == Return(st, Null)

\* the value execute returns for a declaration: the value it has bound
DeclarationResult(st, value) == Return(st, value)

\* a print or expression statement has run with this value (history)
Leaf(st, v) == [st EXCEPT !.leaf = v, !.leafN = @ + 1]

\* The interpreter's call stack is kept in the state: st.stack holds, innermost
\* last, the places at which interpret, execute and evaluate are suspended.  A
\* frame names its place (at), the node or list it works on, a loop index (i)
\* and the locals the place needs (x); the value a finished execute or
\* evaluate returns is st.value.
Frame(at, node, i, x) == [at |-> at, node |-> node, i |-> i, x |-> x]
Push(st, frame)       == [st EXCEPT !.stack = Append(@, frame)]
Enter(st, at, node)   == Push(st, Frame(at, node, 0, <<>>))

\* BrainRotInterpreter.execute, up to its first call of evaluate or execute
execute(node, st) ==
    CASE node.type = "VariableDeclaration" ->
            Enter(Enter(st, "declared", node), "evaluate", node.value)
      [] node.type = "PrintStatement" ->
            Enter(Enter(st, "printed", node), "evaluate", node.expression)
      [] node.type = "WhileLoop" -> Enter(st, "while", node)
      [] node.type = "IfStatement" ->
            Enter(Enter(st, "branch", node), "evaluate", node.condition)
      [] node.type = "FunctionDeclaration" ->
            CompoundResult(RegisterFunction(st, node))
      [] OTHER -> Enter(Enter(st, "evaluated", node), "evaluate", node)

\* for (const stmt of list) this.execute(stmt), at the i-th statement
executeList(frame, st) ==
    IF frame.i > Len(frame.node) THEN st
    ELSE execute(frame.node[frame.i], Push(st, [frame EXCEPT !.i = @ + 1]))

\* the loop as a conditional: the condition is not evaluated again after the
\* body
executeWhileOnce(node, st) ==
    LET c == Logged(st, [k |-> "cond", truthy |-> isTruthy(st.value),
                         variables |-> st.variables])
    IN IF isTruthy(st.value)
       THEN Push(Enter(c, "branched", node), Frame("list", node.body, 1, <<>>))
       ELSE CompoundResult(c)

\* case 'WhileLoop' of execute, the condition evaluated
executeWhile(node, st) ==
    LET c == Logged(st, [k |-> "cond", truthy |-> isTruthy(st.value),
                         variables |-> st.variables])
    IN IF isTruthy(st.value)
       THEN Push(Enter(c, "while", node), Frame("list", node.body, 1, <<>>))
       ELSE CompoundResult(c)

\* case 'IfStatement' of execute, the condition evaluated
executeIf(node, st) ==
    IF isTruthy(st.value)
    THEN Push(Enter(st, "branched", node), Frame("list", node.thenBody, 1, <<>>))
    ELSE IF node.hasElse
    THEN Push(Enter(st, "branched", node), Frame("list", node.elseBody, 1, <<>>))
    ELSE CompoundResult(st)

\* BrainRotInterpreter.execute, resumed at frame.at
executeNext(frame, st) ==
    CASE frame.at = "declared" ->
            DeclarationResult(
                Leaf([st EXCEPT !.variables = MapSet(@, frame.node.name, st.value)],
                     Undefined),
                st.value)
      [] frame.at = "printed" ->
            Logged(Leaf([st EXCEPT !.output = Append(@, JsString(st.value))],
                        st.value),
                   [k |-> "print", line |-> JsString(st.value)])
      [] frame.at = "while" ->
            Enter(Enter(st, "test", frame.node), "evaluate", frame.node.condition)
      [] frame.at = "test" -> executeWhile(frame.node, st)
      [] frame.at = "branch" -> executeIf(frame.node, st)
      [] frame.at = "branched" -> CompoundResult(st)
      [] frame.at = "evaluated" -> Leaf(st, st.value)
      [] frame.at = "list" -> executeList(frame, st)

\* case 'CallExpression' of evaluate, up to the Bind parameters loop; the
\* frame keeps func, prevVars and, for the history, the function table
evaluateCall(callExpr, st) ==
    IF ~FunctionDefined(st, callExpr.name)
    THEN ThrowError(Logged(st, [k |-> "lookup", name |-> callExpr.name,
                                found |-> FALSE]),
                    m_UndefinedFunction \o NameText(callExpr.name))
    ELSE IF st.depth >= MaxDepth THEN ThrowError(st, m_StackExceeded)
    ELSE Push([Logged(st, [k |-> "lookup", name |-> callExpr.name,
                           found |-> TRUE])
                  EXCEPT !.depth = @ + 1],
              Frame("bind", callExpr, 1,
                    [func |-> st.functions[callExpr.name],
                     prevVars |-> st.variables,
                     functions |-> st.functions,
                     bound |-> st.variables, leafBefore |-> 0]))

\* the Bind parameters loop of evaluate at the i-th parameter, and after it
\* the start of the Execute function body loop
bindParameters(frame, st) ==
    LET func == frame.x.func
        i == frame.i
    IN IF i > Len(func.parameters)
       THEN Push(Push(Return(st, Undefined),
                      [frame EXCEPT !.at = "return", !.x.bound = st.variables,
                                    !.x.leafBefore = st.leafN]),
                 Frame("list", func.body, 1, <<>>))
       ELSE IF i <= Len(frame.node.arguments)
       THEN Enter(Push(st, [frame EXCEPT !.at = "bound"]),
                  "evaluate", frame.node.arguments[i])
       ELSE Push([st EXCEPT !.variables = MapSet(@, func.parameters[i], Undefined)],
                 [frame EXCEPT !.i = @ + 1])

\* a return that also puts back the functions the call began with
returnFromCallWithFunctions(frame, st) ==
    Logged([RestoreScope(st, frame.x.prevVars) EXCEPT
                !.depth = @ - 1, !.functions = frame.x.functions],
           [k |-> "call", name |-> frame.node.name,
            parameters |-> frame.x.func.parameters,
            arguments |-> frame.node.arguments,
            body |-> frame.x.func.body,
            functions |-> frame.x.functions,
            before |-> frame.x.prevVars,
            bound |-> frame.x.bound,
            atEnd |-> st.variables,
            after |-> RestoreScope(st, frame.x.prevVars).variables,
            functionsAtEnd |-> st.functions,
            functionsAfter |-> frame.x.functions,
            outputAtEnd |-> st.output,
            leafBefore |-> frame.x.leafBefore, leafAfter |-> st.leafN,
            leaf |-> st.leaf,
            value |-> st.value])

\* Restore previous scope; return result
returnFromCall(frame, st) ==
    Logged([RestoreScope(st, frame.x.prevVars) EXCEPT !.depth = @ - 1],
           [k |-> "call", name |-> frame.node.name,
            parameters |-> frame.x.func.parameters,
            arguments |-> frame.node.arguments,
            body |-> frame.x.func.body,
            functions |-> frame.x.functions,
            before |-> frame.x.prevVars,
            bound |-> frame.x.bound,
            atEnd |-> st.variables,
            after |-> RestoreScope(st, frame.x.prevVars).variables,
            functionsAtEnd |-> st.functions,
            functionsAfter |-> RestoreScope(st, frame.x.prevVars).functions,
            outputAtEnd |-> st.output,
            leafBefore |-> frame.x.leafBefore, leafAfter |-> st.leafN,
            leaf |-> st.leaf,
            value |-> st.value])

\* BrainRotInterpreter.evaluate, up to its first call of evaluate or execute
evaluate(expr, st) ==
    CASE expr.type = "Literal" -> Return(st, expr.value)
      [] expr.type = "Identifier" ->
            IF MapHas(st.variables, expr.name)
            THEN Return(st, st.variables[expr.name])
            ELSE ThrowError(st, m_UndefinedVariable \o expr.name)
      [] expr.type = "BinaryExpression" ->
            Enter(Enter(st, "left", expr), "evaluate", expr.left)
      [] expr.type = "CallExpression" -> evaluateCall(expr, st)
      [] OTHER -> ThrowError(st, m_UnknownExpression \o TypeText(expr.type))

\* evaluate with androt and orrot decided by the left operand where it can
evaluateNextShortCircuit(frame, st) ==
    CASE frame.at = "left" ->
            IF frame.node.operator = s_ANDROT /\ ~isTruthy(st.value)
            THEN Return(st, Bool(FALSE))
            ELSE IF frame.node.operator = s_ORROT /\ isTruthy(st.value)
            THEN Return(st, Bool(TRUE))
            ELSE Enter(Push(st, Frame("right", frame.node, 0, st.value)),
                       "evaluate", frame.node.right)
      [] frame.at = "right" ->
            ApplyBinary(st, frame.node.operator, frame.x, st.value)
      [] frame.at = "bind" -> bindParameters(frame, st)
      [] frame.at = "bound" ->
            Push([st EXCEPT !.variables =
                                MapSet(@, frame.x.func.parameters[frame.i], st.value)],
                 [frame EXCEPT !.at = "bind", !.i = @ + 1])
      [] frame.at = "return" -> returnFromCall(frame, st)

\* BrainRotInterpreter.evaluate, resumed at frame.at
evaluateNext(frame, st) ==
    CASE frame.at = "left" ->
            Enter(Push(st, Frame("right", frame.node, 0, st.value)),
                  "evaluate", frame.node.right)
      [] frame.at = "right" ->
            ApplyBinary(st, frame.node.operator, frame.x, st.value)
      [] frame.at = "bind" -> bindParameters(frame, st)
      [] frame.at = "bound" ->
            Push([st EXCEPT !.variables =
                                MapSet(@, frame.x.func.parameters[frame.i], st.value)],
                 [frame EXCEPT !.at = "bind", !.i = @ + 1])
      [] frame.at = "return" -> returnFromCall(frame, st)

\* for (const node of ast) this.execute(node), at the i-th node
interpretLoop(frame, st) ==
    IF frame.i > Len(frame.node) THEN st
    ELSE execute(frame.node[frame.i],
                 Push(Logged(st, [k |-> "top", index |-> frame.i]),
                      [frame EXCEPT !.i = @ + 1]))

\* an interpreter with the given fields, about to run
Running(vs, fs) ==
    [variables |-> vs, functions |-> fs, output |-> <<>>,
     status |-> "ok", message |-> <<>>, value |-> Undefined, steps |-> 0,
     depth |-> 0, stack |-> <<>>,
     leaf |-> Undefined, leafN |-> 0, log |-> <<>>]

\* nothing is left to run: an Error is on its way to the catch of interpret,
\* or the loop of interpret has ended
Halted(st) == st.status # "ok" \/ st.stack = <<>>

\* the innermost suspended place runs up to the next call or return
step(st) ==
    IF Halted(st) THEN st
    ELSE LET frame == st.stack[Len(st.stack)]
             rest == [st EXCEPT !.stack = SubSeq(@, 1, Len(@) - 1),
                                !.steps = @ + 1]
         IN CASE frame.at = "evaluate" -> evaluate(frame.node, rest)
              [] frame.at \in {"left", "right", "bind", "bound", "return"} ->
                    evaluateNext(frame, rest)
              [] frame.at = "interpret" -> interpretLoop(frame, rest)
              [] OTHER -> executeNext(frame, rest)

RECURSIVE run(_, _)
\* at most n steps from st on, by halves
run(n, st) ==
    IF n <= 1 THEN step(st)
    ELSE LET h == run(n \div 2, st) IN
         IF Halted(h) THEN h ELSE run(n - (n \div 2), h)

NoError == [some |-> FALSE, message |-> <<>>, line |-> 0, column |-> 0,
            type |-> "NONE"]

BrainRotError(message, type) ==
    [some |-> TRUE, message |-> message, line |-> 0, column |-> 0, type |-> type]

\* the value interpret returns from the state st it ends in: the catch of
\* interpret wraps the Error thrown
interpretReturn(st) ==
    [st |-> st,
     ret |-> [output |-> st.output,
              error |-> IF st.status = "thrown"
                        THEN BrainRotError(m_BrainRotDetected \o st.message,
                                           "RUNTIME")
                        ELSE NoError]]

\* the run has stopped at st: by itself, or because the budget ran out
Stopped(st) == IF Halted(st) THEN st ELSE [st EXCEPT !.status = "exhausted"]

\* BrainRotInterpreter.interpret on an interpreter whose fields are vs and fs:
\* the state it ends in, and ret, the value it returns
interpret(ast, vs, fs) ==
    interpretReturn(
        Stopped(run(MaxSteps,
                    Push(Logged(Running(vs, fs),
                                [k |-> "run", statements |-> Len(ast),
                                 variables |-> vs, functions |-> fs]),
                         Frame("interpret", ast, 1, <<>>)))))

\* const v = x; F(v): x has its value before F is entered
Then(x, F(_)) == CHOOSE r \in {F(v) : v \in {x}} : TRUE

\* the message of the TypeError of reading .value of undefined (V8)
m_ReadOfUndefined == <<"C","a","n","n","o","t"," ","r","e","a","d"," ","p","r","o","p","e","r","t","i","e","s"," ","o","f"," ","u","n","d","e","f","i","n","e","d"," ","(","r","e","a","d","i","n","g"," ","'","v","a","l","u","e","'",")">>
m_SyntaxRotted == <<"S","y","n","t","a","x"," ","r","o","t","t","e","d"," ","t","o","o"," ","h","a","r","d",":"," ">>

\* the catch block of executeBrainRot: the Error that has left parse
syntaxReturn(message) ==
    [st |-> Running(EmptyMap, EmptyMap),
     ret |-> [output |-> <<>>,
              error |-> BrainRotError(m_SyntaxRotted \o message, "SYNTAX")]]

\* the run r with, as history, the tokenizer and the parser it went through
Traced(lx, ps, r) ==
    [st |-> r.st, ret |-> r.ret,
     lexed |-> [done |-> lx.done, trace |-> lx.trace, tokens |-> tokenizeEnd(lx)],
     parsed |-> ps]

\* executeBrainRot: a new tokenizer, parser and interpreter for each call
executeBrainRot(source) ==
    Then(tokenizeRun(source), LAMBDA lx :
        Then(parse(tokenizeEnd(lx)), LAMBDA ps :
            Traced(lx, ps, IF ps.ok
                           THEN interpret(ps.statements, EmptyMap, EmptyMap)
                           ELSE syntaxReturn(m_ReadOfUndefined))))

----------------------------------------------------------------------------
(* The programs *)

\* EXAMPLE_PROGRAMS.hello
SrcHello ==
    <<"#","r","o","t"," ","W","e","l","c","o","m","e"," ","t","o"," ","B","r","a","i","n","R","o","t","!","\n","r","o","t","t"," ","\"","H","e","l","l","o",","," ","I"," ","a","m"," ","b","r","a","i","n","r","o","t","t","e","d","!","\"",";">>

\* EXAMPLE_PROGRAMS.countdown, counting down from n (the example has n = 5)
SrcCountdown(n) ==
    <<"#","r","o","t"," ","C","o","u","n","t","d","o","w","n"," ","c","h","a","o","s","\n","m","o","l","d"," ","x"," ","="," ">>
    \o IntToStr(n) \o
    <<";","\n","s","p","i","n"," ","x"," ",">"," ","0"," ","{","\n"," "," ","r","o","t","t"," ","\"","C","o","u","n","t","d","o","w","n",":"," ","\""," ","+"," ","x",";","\n"," "," ","m","o","l","d"," ","x"," ","="," ","x"," ","-"," ","1",";","\n","}","\n","r","o","t","t"," ","\"","B","R","A","I","N"," ","R","O","T"," ","C","O","M","P","L","E","T","E","!","\"",";">>

\* EXAMPLE_PROGRAMS.fibonacci
SrcFibonacci ==
    <<"#","r","o","t"," ","F","i","b","o","n","a","c","c","i"," ","m","a","d","n","e","s","s","\n","f","n","r","o","t"," ","f","i","b","(","n",")"," ","{","\n"," "," ","i","f","r","o","t"," ","n"," ","<"," ","2"," ","{","\n"," "," "," "," ","r","o","t","t"," ","n",";","\n"," "," ","}","\n"," "," ","e","l","s","e","d"," ","{","\n"," "," "," "," ","r","o","t","t"," ","f","i","b","(","n"," ","-"," ","1",")"," ","+"," ","f","i","b","(","n"," ","-"," ","2",")",";","\n"," "," ","}","\n","}","\n","\n","m","o","l","d"," ","i"," ","="," ","0",";","\n","s","p","i","n"," ","i"," ","<"," ","8"," ","{","\n"," "," ","f","i","b","(","i",")",";","\n"," "," ","m","o","l","d"," ","i"," ","="," ","i"," ","+"," ","1",";","\n","}">>

\* EXAMPLE_PROGRAMS.logic
SrcLogic ==
    <<"#","r","o","t"," ","L","o","g","i","c"," ","r","o","t","t","i","n","g","\n","m","o","l","d"," ","a"," ","="," ","5",";","\n","m","o","l","d"," ","b"," ","="," ","1","0",";","\n","\n","i","f","r","o","t"," ","a"," ",">"," ","b"," ","o","r","r","o","t"," ","b"," ","=","="," ","1","0"," ","{","\n"," "," ","r","o","t","t"," ","\"","B","r","a","i","n"," ","r","o","t"," ","d","e","t","e","c","t","e","d","!","\"",";","\n","}","\n","\n","i","f","r","o","t"," ","a"," ","<"," ","b"," ","a","n","d","r","o","t"," ","b"," ",">"," ","8"," ","{","\n"," "," ","r","o","t","t"," ","\"","D","o","u","b","l","e"," ","b","r","a","i","n"," ","r","o","t","!","\"",";","\n","}","\n","\n","i","f","r","o","t"," ","n","o","t","r","o","t"," ","a"," ","=","="," ","b"," ","{","\n"," "," ","r","o","t","t"," ","\"","N","o","t"," ","e","q","u","a","l"," ","r","o","t","!","\"",";","\n","}">>

SrcRollback     == <<"m","o","l","d"," ","a"," ","="," ","1",";"," ","f","n","r","o","t"," ","f","(",")"," ","{"," ","m","o","l","d"," ","a"," ","="," ","9","9",";"," ","}"," ","f","(",")",";"," ","r","o","t","t"," ","a",";">>
SrcNotZero      == <<"i","f","r","o","t"," ","n","o","t","r","o","t"," ","0"," ","{"," ","r","o","t","t"," ","\"","y","e","s","\"",";"," ","}">>
SrcNotEmpty     == <<"i","f","r","o","t"," ","n","o","t","r","o","t"," ","\"","\""," ","{"," ","r","o","t","t"," ","\"","y","e","s","\"",";"," ","}">>
SrcNotOne       == <<"i","f","r","o","t"," ","n","o","t","r","o","t"," ","1"," ","{"," ","r","o","t","t"," ","\"","y","e","s","\"",";"," ","}">>
SrcBang         == <<"r","o","t","t"," ","!","0",";">>
SrcNegate       == <<"m","o","l","d"," ","m"," ","="," ","3",";"," ","r","o","t","t"," ","-","m",";">>
SrcUndefinedVar == <<"r","o","t","t"," ","y",";">>
SrcPrintThenFail == <<"r","o","t","t"," ","\"","p","\"",";"," ","r","o","t","t"," ","2",";"," ","r","o","t","t"," ","y",";"," ","r","o","t","t"," ","\"","q","\"",";"," ","m","o","l","d"," ","z"," ","="," ","1",";">>
SrcMoldNoSemi   == <<"m","o","l","d"," ","x"," ","="," ","1"," ","r","o","t","t"," ","\"","o","k","\"",";">>
SrcRottNoSemi   == <<"r","o","t","t"," ","1"," ","r","o","t","t"," ","\"","o","k","\"",";">>
SrcMoldNoName   == <<"m","o","l","d"," ","="," ","1",";"," ","r","o","t","t"," ","\"","o","k","\"",";">>
SrcStrayParen   == <<"r","o","t","t"," ",")",";"," ","r","o","t","t"," ","\"","o","k","\"",";">>
SrcDeclResult   == <<"f","n","r","o","t"," ","g","(",")"," ","{"," ","m","o","l","d"," ","r"," ","="," ","7",";"," ","}"," ","r","o","t","t"," ","g","(",")",";">>
SrcNestedResult == <<"f","n","r","o","t"," ","h","(","n",")"," ","{"," ","i","f","r","o","t"," ","n"," ","<"," ","2"," ","{"," ","n"," ","+"," ","1","0",";"," ","}"," ","}"," ","r","o","t","t"," ","h","(","1",")",";">>
SrcLoopResult   == <<"f","n","r","o","t"," ","w","(",")"," ","{"," ","m","o","l","d"," ","i"," ","="," ","0",";"," ","s","p","i","n"," ","i"," ","<"," ","2"," ","{"," ","m","o","l","d"," ","i"," ","="," ","i"," ","+"," ","1",";"," ","}"," ","}"," ","r","o","t","t"," ","w","(",")",";">>
SrcEmptyResult  == <<"f","n","r","o","t"," ","e","(",")"," ","{"," ","}"," ","r","o","t","t"," ","e","(",")",";">>
SrcExprResult   == <<"f","n","r","o","t"," ","k","(",")"," ","{"," ","r","o","t","t"," ","\"","i","n","\"",";"," ","5",";"," ","}"," ","r","o","t","t"," ","k","(",")",";">>
SrcSwap         == <<"m","o","l","d"," ","a"," ","="," ","1",";"," ","m","o","l","d"," ","b"," ","="," ","2",";"," ","f","n","r","o","t"," ","f","(","b",","," ","a",")"," ","{"," ","r","o","t","t"," ","b",";"," ","r","o","t","t"," ","a",";"," ","}"," ","f","(","a",","," ","b",")",";">>
SrcMissingArg   == <<"f","n","r","o","t"," ","f","(","p",","," ","q",")"," ","{"," ","r","o","t","t"," ","p",";"," ","r","o","t","t"," ","q",";"," ","}"," ","f","(","1",")",";">>
SrcExtraArg     == <<"f","n","r","o","t"," ","f","(","p",")"," ","{"," ","r","o","t","t"," ","p",";"," ","}"," ","f","(","1",","," ","y",")",";">>
SrcCallBefore   == <<"f","(",")",";"," ","f","n","r","o","t"," ","f","(",")"," ","{"," ","r","o","t","t"," ","1",";"," ","}">>
SrcCallAfter    == <<"f","n","r","o","t"," ","f","(",")"," ","{"," ","r","o","t","t"," ","1",";"," ","}"," ","f","(",")",";"," ","r","o","t","t"," ","\"","d","o","n","e","\"",";">>
SrcDeclInBranch == <<"i","f","r","o","t"," ","0"," ","{"," ","f","n","r","o","t"," ","f","(",")"," ","{"," ","r","o","t","t"," ","1",";"," ","}"," ","}"," ","f","(",")",";">>
SrcDeclInBody   == <<"f","n","r","o","t"," ","o","u","t","e","r","(",")"," ","{"," ","f","n","r","o","t"," ","i","n","n","e","r","(",")"," ","{"," ","r","o","t","t"," ","2",";"," ","}"," ","}"," ","i","n","n","e","r","(",")",";">>
SrcDeclByCall   == <<"m","o","l","d"," ","v"," ","="," ","1",";"," ","f","n","r","o","t"," ","o","u","t","e","r","(",")"," ","{"," ","m","o","l","d"," ","v"," ","="," ","2",";"," ","f","n","r","o","t"," ","i","n","n","e","r","(",")"," ","{"," ","r","o","t","t"," ","2",";"," ","}"," ","}"," ","o","u","t","e","r","(",")",";"," ","i","n","n","e","r","(",")",";"," ","r","o","t","t"," ","v",";">>
SrcNestedCalls  == <<"m","o","l","d"," ","a"," ","="," ","1",";"," ","f","n","r","o","t"," ","g","(",")"," ","{"," ","m","o","l","d"," ","a"," ","="," ","5",";"," ","m","o","l","d"," ","c"," ","="," ","3",";"," ","}"," ","f","n","r","o","t"," ","f","(","x",")"," ","{"," ","g","(",")",";"," ","m","o","l","d"," ","a"," ","="," ","x",";"," ","r","o","t","t"," ","a",";"," ","}"," ","f","(","7",")",";"," ","r","o","t","t"," ","a",";">>
SrcRecursion    == <<"f","n","r","o","t"," ","r","(","n",")"," ","{"," ","i","f","r","o","t"," ","n"," ",">"," ","0"," ","{"," ","m","o","l","d"," ","t"," ","="," ","n",";"," ","r","(","n"," ","-"," ","1",")",";"," ","}"," ","r","o","t","t"," ","n",";"," ","}"," ","r","(","2",")",";"," ","r","o","t","t"," ","\"","e","n","d","\"",";">>
SrcCallInArg    == <<"m","o","l","d"," ","q"," ","="," ","0",";"," ","f","n","r","o","t"," ","i","d","(","v",")"," ","{"," ","m","o","l","d"," ","q"," ","="," ","v",";"," ","v",";"," ","}"," ","f","n","r","o","t"," ","f","(","p",","," ","q",")"," ","{"," ","r","o","t","t"," ","p"," ","+"," ","q",";"," ","}"," ","f","(","i","d","(","1",")",","," ","i","d","(","2",")",")",";"," ","r","o","t","t"," ","q",";">>
SrcDeclOnly     == <<"f","n","r","o","t"," ","f","(",")"," ","{"," ","r","o","t","t"," ","1",";"," ","}"," ","r","o","t","t"," ","\"","d","o","n","e","\"",";">>
SrcForever      == <<"s","p","i","n"," ","1"," ","{"," ","}">>
SrcRunaway      == <<"r","o","t","t"," ","\"","g","o","\"",";"," ","f","n","r","o","t"," ","f","(",")"," ","{"," ","f","(",")",";"," ","}"," ","f","(",")",";">>

NamedSources ==
    {SrcHello, SrcFibonacci, SrcLogic, SrcRollback, SrcNotZero, SrcNotEmpty,
     SrcNotOne, SrcBang, SrcNegate, SrcUndefinedVar, SrcPrintThenFail,
     SrcMoldNoSemi, SrcRottNoSemi, SrcMoldNoName, SrcStrayParen, SrcDeclResult,
     SrcNestedResult, SrcLoopResult, SrcEmptyResult, SrcExprResult, SrcSwap,
     SrcMissingArg, SrcExtraArg, SrcCallBefore, SrcCallAfter, SrcDeclInBranch,
     SrcDeclInBody, SrcDeclByCall, SrcNestedCalls, SrcRecursion, SrcCallInArg,
     SrcDeclOnly, SrcForever, SrcRunaway}
    \cup {SrcCountdown(n) : n \in 0..MaxN}

\* the statements programs are assembled from
Fragments ==
    << <<"m","o","l","d"," ","a"," ","="," ","1",";">>,
       <<"m","o","l","d"," ","a"," ","="," ","a"," ","+"," ","1",";">>,
       <<"r","o","t","t"," ","a",";">>,
       <<"f","n","r","o","t"," ","f","(","a",")"," ","{"," ","m","o","l","d"," ","a"," ","="," ","a"," ","*"," ","2",";"," ","r","o","t","t"," ","a",";"," ","}">>,
       <<"f","(","a",")",";">>,
       <<"r","o","t","t"," ","f","(","3",")"," ","+"," ","1",";">>,
       <<"r","o","t","t"," ","\"","o","k","\"",";">>,
       <<"m","o","l","d"," ","x"," ","="," ","1">>,
       <<"s","p","i","n"," ","a"," ","<"," ","3"," ","{"," ","r","o","t","t"," ","\"","a","\""," ","+"," ","a",";"," ","m","o","l","d"," ","a"," ","="," ","a"," ","+"," ","1",";"," ","}">>,
       <<"i","f","r","o","t"," ","a"," ","=","="," ","1"," ","{"," ","r","o","t","t"," ","\"","o","n","e","\"",";"," ","}"," ","e","l","s","e","d"," ","{"," ","f","n","r","o","t"," ","f","(","b",")"," ","{"," ","r","o","t","t"," ","b",";"," ","}"," ","}">>,
       <<"g","(",")",";">> >>

RECURSIVE Assembled(_)
\* the programs of k fragments, each followed by a space
Assembled(k) ==
    IF k = 0 THEN {<<>>}
    ELSE {p \o Fragments[i] \o <<" ">> :
              p \in Assembled(k - 1), i \in 1..Len(Fragments)}

Sources == NamedSources \cup UNION {Assembled(k) : k \in 0..MaxStmts}

\* the sources run one after another on the long-lived interpreter
SessionSources == {Fragments[i] : i \in 1..Len(Fragments)}

----------------------------------------------------------------------------
(* The inputs of the tokenizer and the parser *)

\* the characters strings are made of: a letter, a digit, the quote, the
\* backslash, the dot, an operator, white space and a character no token has
Alphabet == {"a", "1", "\"", "\\", ".", "=", " ", "@"}

\* the strings of at most n characters
Strings(n) == UNION {[1..k -> Alphabet] : k \in 0..n}

\* the lexemes token sequences are made of
Lexemes ==
    << <<"m","o","l","d">>, <<"x">>, <<"=">>, <<"1">>, <<";">>, <<"r","o","t","t">>, <<"(">>, <<")">>, <<"{">>, <<"}">>, <<"i","f","r","o","t">>,
       <<"f","n","r","o","t">>, <<"s","p","i","n">> >>

\* the places of character c in string s
Places(s, c) == {i \in 1..Len(s) : s[i] = c}

RECURSIVE Phrases(_)
\* the sources of k lexemes, each followed by a space, that open at most
\* MaxParens parentheses
Phrases(k) ==
    IF k = 0 THEN {<<>>}
    ELSE {q \in {p \o Lexemes[i] \o <<" ">> :
                    p \in Phrases(k - 1), i \in 1..Len(Lexemes)} :
              Cardinality(Places(q, "(")) <= MaxParens}

SrcUnknownChar    == <<"r","o","t","t"," ","1"," ","@"," ","+"," ","2",";">>
SrcUnknownInWord  == <<"r","o","t","t"," ","a","@","b",";">>
SrcUnterminated   == <<"r","o","t","t"," ","1",";"," ","r","o","t","t"," ","\"","a","b","c",";"," ","r","o","t","t"," ","2",";">>

SrcOnePlusTwo     == <<"r","o","t","t"," ","1"," ","+"," ","2",";">>
SrcPlusTimes      == <<"r","o","t","t"," ","1"," ","+"," ","2"," ","*"," ","3",";">>
SrcMinusMinus     == <<"r","o","t","t"," ","1","0"," ","-"," ","4"," ","-"," ","3",";">>

\* the binary operators: as written, as the tokenizer names them
BinaryOperators ==
    << [text |-> <<"o","r","r","o","t">>, value |-> s_ORROT],
       [text |-> <<"a","n","d","r","o","t">>, value |-> s_ANDROT],
       [text |-> <<"=","=">>, value |-> s_EQ],
       [text |-> <<"!","=">>, value |-> s_NEQ],
       [text |-> <<">">>, value |-> s_GT],
       [text |-> <<"<">>, value |-> s_LT],
       [text |-> <<"+">>, value |-> s_PLUS],
       [text |-> <<"-">>, value |-> s_MINUS],
       [text |-> <<"*">>, value |-> s_MULTIPLY],
       [text |-> <<"/">>, value |-> s_DIVIDE] >>

\* rott 24 op 4 op 2; for the operators i and j
SrcChain(i, j) ==
    <<"r","o","t","t"," ","2","4"," ">> \o BinaryOperators[i].text \o <<" ","4"," ">>
    \o BinaryOperators[j].text \o <<" ","2",";">>

SrcAndrotUndefined == <<"r","o","t","t"," ","0"," ","a","n","d","r","o","t"," ","y",";">>
SrcOrrotUndefined  == <<"r","o","t","t"," ","1"," ","o","r","r","o","t"," ","y",";">>

\* f prints L and has the value 6, g prints R and has the value 3
SrcLeftRight == <<"f","n","r","o","t"," ","f","(",")"," ","{"," ","r","o","t","t"," ","\"","L","\"",";"," ","6",";"," ","}"," ","f","n","r","o","t"," ","g","(",")"," ","{"," ","r","o","t","t"," ","\"","R","\"",";"," ","3",";"," ","}"," ">>

\* rott f() op g(); for the operator i, and the same with an operand that is
\* not declared
SrcBothCalls(i) ==
    SrcLeftRight \o <<"r","o","t","t"," ","f","(",")"," ">> \o BinaryOperators[i].text \o <<" ","g","(",")",";">>
SrcCallThenUndefined(i) ==
    SrcLeftRight \o <<"r","o","t","t"," ","f","(",")"," ">> \o BinaryOperators[i].text \o <<" ","y",";">>
SrcUndefinedThenCall(i) ==
    SrcLeftRight \o <<"r","o","t","t"," ","y"," ">> \o BinaryOperators[i].text \o <<" ","g","(",")",";">>

SrcCallNumber == <<"5","(","1",")",";">>
SrcCallGroup  == <<"(","1"," ","+"," ","2",")","(","3",")",";">>
SrcCallOfCall == <<"f","n","r","o","t"," ","f","(","a",")"," ","{"," ","r","o","t","t"," ","a",";"," ","}"," ","f","(","1",")","(","2",")",";">>

SrcRedefineByCall ==
    <<"m","o","l","d"," ","v"," ","="," ","1",";"," ","f","n","r","o","t"," ","g","(",")"," ","{"," ","r","o","t","t"," ","\"","o","l","d","\"",";"," ","}"," ","f","n","r","o","t"," ","h","(",")"," ","{"," ","m","o","l","d"," ","v"," ","="," ","2",";"," ","m","o","l","d"," ","w"," ","="," ","3",";"," ">>
    \o <<"f","n","r","o","t"," ","g","(",")"," ","{"," ","r","o","t","t"," ","\"","n","e","w","\"",";"," ","}"," ","}"," ","h","(",")",";"," ","g","(",")",";"," ","r","o","t","t"," ","v",";">>

\* blocks with a statement that does not parse, followed in the block by
\* rott 3; and after the block by rott 4;
SrcBadInSpin   == <<"s","p","i","n"," ","0"," ","{"," ","r","o","t","t"," ","1"," ","r","o","t","t"," ","2",";"," ","r","o","t","t"," ","3",";"," ","}"," ","r","o","t","t"," ","4",";">>
SrcBadInIfrot  == <<"i","f","r","o","t"," ","0"," ","{"," ","m","o","l","d"," ","="," ","1",";"," ","r","o","t","t"," ","3",";"," ","}"," ","r","o","t","t"," ","4",";">>
SrcBadInElsed  == <<"i","f","r","o","t"," ","1"," ","{"," ","r","o","t","t"," ","1",";"," ","}"," ","e","l","s","e","d"," ","{"," ","r","o","t","t"," ","2"," ","r","o","t","t"," ","9",";"," ","r","o","t","t"," ","3",";"," ","}"," ","r","o","t","t"," ","4",";">>
SrcBadInFnrot  == <<"f","n","r","o","t"," ","f","(",")"," ","{"," ","r","o","t","t"," ",")",";"," ","r","o","t","t"," ","3",";"," ","}"," ","r","o","t","t"," ","4",";"," ","f","(",")",";">>
SrcBadInNested == <<"s","p","i","n"," ","0"," ","{"," ","i","f","r","o","t"," ","0"," ","{"," ","r","o","t","t"," ",")",";"," ","r","o","t","t"," ","3",";"," ","}"," ","r","o","t","t"," ","5",";"," ","}"," ","r","o","t","t"," ","4",";">>

NamedInputs ==
    {SrcUnknownChar, SrcUnknownInWord, SrcUnterminated, SrcOnePlusTwo,
     SrcPlusTimes, SrcMinusMinus, SrcAndrotUndefined, SrcOrrotUndefined,
     SrcCallNumber, SrcCallGroup, SrcCallOfCall, SrcDeclByCall,
     SrcRedefineByCall, SrcBadInSpin, SrcBadInIfrot, SrcBadInElsed,
     SrcBadInFnrot, SrcBadInNested}
    \cup {SrcChain(i, j) : i, j \in 1..Len(BinaryOperators)}
    \cup {SrcBothCalls(i) : i \in 1..Len(BinaryOperators)}
    \cup {SrcCallThenUndefined(i) : i \in 1..Len(BinaryOperators)}
    \cup {SrcUndefinedThenCall(i) : i \in 1..Len(BinaryOperators)}

Inputs ==
    NamedInputs \cup Strings(MaxChars) \cup UNION {Phrases(k) : k \in 0..MaxLexemes}

----------------------------------------------------------------------------
(* The operations *)

\* before a run: no tokens
NotLexed == [done |-> FALSE, trace |-> <<>>, tokens |-> <<>>]

\* the IDE as it starts, but for the text in its editor
Constructed ==
    /\ variables = EmptyMap
    /\ functions = EmptyMap
    /\ output = <<>>
    /\ result = [output |-> <<>>, error |-> NoError]
    /\ last = [op |-> "new", src |-> <<>>, log |-> <<>>,
               variables |-> EmptyMap, functions |-> EmptyMap,
               lexed |-> NotLexed, parsed |-> ParserInit]
    /\ runs = 0

Init == code \in Sources /\ Constructed

\* handleRun of the IDE: executeBrainRot(code).  A run that exhausts the
\* evaluation budget has not returned.
ExecuteBrainRot ==
    \E r \in {executeBrainRot(code)} :
    /\ r.st.status # "exhausted"
    /\ result' = r.ret
    /\ last' = [op |-> "executeBrainRot", src |-> code, log |-> r.st.log,
                variables |-> EmptyMap, functions |-> EmptyMap,
                lexed |-> r.lexed, parsed |-> r.parsed]
    /\ UNCHANGED <<code, variables, functions, output, runs>>

\* interpreter.interpret(new BrainRotParser(tokens).parse()) for the tokens of
\* src, on an interpreter whose fields are vs and fs
interpretSource(src, vs, fs) ==
    Then(tokenizeRun(src), LAMBDA lx :
        Then(parse(tokenizeEnd(lx)), LAMBDA ps :
            Traced(lx, ps, interpret(ps.statements, vs, fs))))

\* one more run on the long-lived interpreter
Interpret(src) ==
    \E r \in {interpretSource(src, variables, functions)} :
    /\ runs < MaxRuns
    /\ r.parsed.ok
    /\ r.st.status # "exhausted"
    /\ variables' = r.st.variables
    /\ functions' = r.st.functions
    /\ output' = r.st.output
    /\ result' = r.ret
    /\ last' = [op |-> "interpret", src |-> src, log |-> r.st.log,
                variables |-> variables, functions |-> functions,
                lexed |-> r.lexed, parsed |-> r.parsed]
    /\ runs' = runs + 1
    /\ UNCHANGED code

\* interpreter.clearVariables()
ClearVariables ==
    /\ variables' = EmptyMap
    /\ functions' = EmptyMap
    /\ last' = [op |-> "clearVariables", src |-> <<>>, log |-> <<>>,
                variables |-> variables, functions |-> functions,
                lexed |-> NotLexed, parsed |-> ParserInit]
    /\ UNCHANGED <<code, output, result, runs>>

\* the IDE: every run is a call of executeBrainRot
Next == ExecuteBrainRot

Spec == Init /\ [][Next]_vars

\* a session on one interpreter object
InitSession == Init /\ code = <<>>

NextSession ==
    \/ \E src \in SessionSources : Interpret(src)
    \/ ClearVariables

SpecSession == InitSession /\ [][NextSession]_vars

\* the IDE run on the inputs of the tokenizer and the parser
InitInputs == code \in Inputs /\ Constructed

SpecInputs == InitInputs /\ [][Next]_vars

----------------------------------------------------------------------------
(* The properties.  last.log holds the events of the run that produced the  *)
(* current result, oldest first.                                            *)

\* a call of executeBrainRot has returned
Ran == last.op = "executeBrainRot"

\* the events of kind k of the last run, oldest first
Events(k) == SelectSeq(last.log, LAMBDA e : e.k = k)

\* the result of a run that printed lines and returned no error
Success(lines) == [output |-> lines, error |-> NoError]

\* C1: every call expression that returns leaves the variable environment
\* exactly as it was immediately before the call, whatever the body and the
\* calls nested in it have declared, overwritten or bound; the rollback
\* program outputs ["1"].
C1_CallRestoresEnvironment ==
    /\ \A i \in 1..Len(last.log) :
          last.log[i].k = "call" => last.log[i].after = last.log[i].before
    /\ (Ran /\ code = SrcRollback) => result = Success(<< <<"1">> >>)

\* a call has returned whose body left the environment changed
C1_Witness ==
    /\ Ran
    /\ \E i \in 1..Len(last.log) :
          /\ last.log[i].k = "call"
          /\ last.log[i].atEnd # last.log[i].before
          /\ last.log[i].after = last.log[i].before

\* C2: notrot and ! negate the truthiness of their operand and unary - negates
\* a number, without error: ifrot notrot 0 and ifrot notrot "" print "yes",
\* ifrot notrot 1 prints nothing, and none returns an error.
C2_UnaryOperators ==
    Ran =>
      /\ code \in {SrcNotZero, SrcNotEmpty} => result = Success(<< <<"y","e","s">> >>)
      /\ code = SrcNotOne => result = Success(<<>>)
      /\ code = SrcBang => result = Success(<< <<"t","r","u","e">> >>)
      /\ code = SrcNegate => result = Success(<< <<"-","3">> >>)

\* C3: the fibonacci example prints 0, 1, 1, 2, 3, 5, 8, 13, one value per
\* line, and returns no error.
C3_FibonacciExample ==
    (Ran /\ code = SrcFibonacci) =>
        result = Success(<< <<"0">>, <<"1">>, <<"1">>, <<"2">>, <<"3">>, <<"5">>,
                            <<"8">>, <<"1","3">> >>)

\* C4: a statement whose only defect is its missing ; followed by rott "ok";
\* gives output ["ok"] and no error: the valid statement is still parsed and
\* executed.
C4_MissingSemicolonRecovery ==
    (Ran /\ code \in {SrcMoldNoSemi, SrcRottNoSemi}) =>
        result = Success(<< <<"o","k">> >>)

\* the lines the print events of the last run record, oldest first
Printed == [i \in 1..Len(Events("print")) |-> Events("print")[i].line]

\* C5: executeBrainRot returns a result for every program: either every
\* top-level statement has executed and there is no error, or the run stopped
\* at the first statement that failed: the statements before it have executed
\* in order, nothing has executed after the failure, the output holds exactly
\* the lines printed before it, in print order, and the one error is of kind
\* RUNTIME.  Reading the undeclared variable y gives empty output and a RUNTIME
\* error whose message names y.
C5_RunStopsAtFirstFailure ==
    Ran =>
      /\ result.output = Printed
      /\ \A i \in 1..Len(Events("top")) : Events("top")[i].index = i
      /\ Len(Events("top")) <= last.log[1].statements
      /\ IF result.error.some
         THEN /\ result.error.type = "RUNTIME"
              /\ Len(Events("top")) >= 1
              /\ Len(Events("throw")) = 1
              /\ last.log[Len(last.log)].k = "throw"
              /\ result.error.message =
                    m_BrainRotDetected \o last.log[Len(last.log)].message
         ELSE /\ Len(Events("top")) = last.log[1].statements
              /\ Events("throw") = <<>>
      /\ code = SrcUndefinedVar =>
            /\ result.output = <<>>
            /\ result.error.some
            /\ result.error.type = "RUNTIME"
            /\ Contains(result.error.message, <<"y">>)
      /\ code = SrcPrintThenFail =>
            /\ result.output = << <<"p">>, <<"2">> >>
            /\ result.error.some

\* a run has printed, then failed in its third statement of five
C5_Witness ==
    /\ Ran
    /\ result.error.some
    /\ Len(result.output) = 2
    /\ Len(Events("top")) = 3
    /\ last.log[1].statements = 5

\* C6: the value of a call is the value of the last statement executed in the
\* function body, wherever it is nested, and undefined when that statement is
\* a declaration.
C6_CallValueIsLastStatement ==
    \A i \in 1..Len(last.log) :
        (last.log[i].k = "call" /\ last.log[i].leafAfter > last.log[i].leafBefore)
            => last.log[i].value = last.log[i].leaf

\* the value an argument has in the environment env: of a literal and of a
\* variable
ArgumentValue(e, env) == IF e.type = "Literal" THEN e.value ELSE env[e.name]

\* C7: in a call, every parameter that has an argument is bound to the value
\* the argument has in the caller's environment as it stands before any
\* parameter is rebound, and every parameter without one to undefined;
\* arguments beyond the parameters have no effect.
C7_ParametersBoundToCallerValues ==
    /\ \A i \in 1..Len(last.log) :
          last.log[i].k = "call" =>
            \A p \in 1..Len(last.log[i].parameters) :
                IF p > Len(last.log[i].arguments)
                THEN last.log[i].bound[last.log[i].parameters[p]] = Undefined
                ELSE last.log[i].arguments[p].type \in {"Literal", "Identifier"}
                       => last.log[i].bound[last.log[i].parameters[p]]
                            = ArgumentValue(last.log[i].arguments[p],
                                            last.log[i].before)
    /\ (Ran /\ code = SrcExtraArg) => result = Success(<< <<"1">> >>)

\* C8: every run of interpret begins with an empty variable environment and
\* an empty function table, whatever ran before on the same interpreter.
C8_RunStartsClean ==
    last.op = "interpret" =>
        /\ last.log[1].variables = EmptyMap
        /\ last.log[1].functions = EmptyMap

\* the message of the result of a run that failed with the Error message msg
RuntimeError(msg) == BrainRotError(m_BrainRotDetected \o msg, "RUNTIME")

\* C9: a call finds its function exactly when a declaration of that name has
\* executed earlier in the run; a call that finds none ends the run with an
\* Undefined function error, also when a declaration of the name follows in
\* the source or stands in a branch or body that has not run; executing a
\* declaration runs nothing of its body.
C9_FunctionKnownOnceDeclared ==
    Ran =>
      /\ \A i \in 1..Len(last.log) :
            last.log[i].k = "lookup" =>
              /\ last.log[i].found <=>
                    \E j \in 1..(i - 1) : /\ last.log[j].k = "decl"
                                          /\ last.log[j].name = last.log[i].name
              /\ ~last.log[i].found =>
                    /\ i + 1 = Len(last.log)
                    /\ result.error =
                          RuntimeError(m_UndefinedFunction
                                       \o NameText(last.log[i].name))
      /\ code \in {SrcCallBefore, SrcDeclInBranch} =>
            /\ result.output = <<>>
            /\ result.error = RuntimeError(m_UndefinedFunction \o <<"f">>)
      /\ code = SrcDeclInBody =>
            result.error = RuntimeError(m_UndefinedFunction
                                        \o <<"i","n","n","e","r">>)
      /\ code = SrcDeclOnly => result = Success(<< <<"d","o","n","e">> >>)
      /\ code = SrcCallAfter =>
            result = Success(<< <<"1">>, <<"d","o","n","e">> >>)

\* a call has found the function a declaration executed earlier in the run
\* registered, in a run of a program that declares inside a function body
C9_Witness ==
    /\ Ran
    /\ code = SrcDeclByCall
    /\ \E i \in 1..Len(last.log) :
          /\ last.log[i].k = "lookup"
          /\ last.log[i].found
          /\ last.log[i].name = <<"i","n","n","e","r">>
    /\ ~result.error.some

\* the line "Countdown: k"
CountdownLine(k) ==
    <<"C","o","u","n","t","d","o","w","n",":"," ">> \o IntToStr(k)

CompleteLine ==
    <<"B","R","A","I","N"," ","R","O","T"," ","C","O","M","P","L","E","T","E","!">>

\* the tests of the loop condition and the prints of a run, oldest first: a
\* test as its outcome, a print as its line
TestsAndPrints ==
    LET es == SelectSeq(last.log, LAMBDA e : e.k \in {"cond", "print"})
    IN [i \in 1..Len(es) |-> IF es[i].k = "cond" THEN <<"cond", es[i].truthy>>
                                                 ELSE <<"print", es[i].line>>]

\* what the countdown from n tests and prints: n times a test that holds and
\* the line of the iteration, the test that fails, the last line
CountdownEvents(n) ==
    [i \in 1..(2 * n + 2) |->
        IF i = 2 * n + 1 THEN <<"cond", FALSE>>
        ELSE IF i = 2 * n + 2 THEN <<"print", CompleteLine>>
        ELSE IF i % 2 = 1 THEN <<"cond", TRUE>>
        ELSE <<"print", CountdownLine(n + 1 - (i \div 2))>>]

\* C10: the countdown program from n >= 0 tests its condition before every
\* iteration, runs its body exactly n times printing "Countdown: n" down to
\* "Countdown: 1", prints "BRAIN ROT COMPLETE!" and ends with no error.
C10_Countdown ==
    \A n \in 0..MaxN :
        (Ran /\ code = SrcCountdown(n)) =>
            /\ result = Success([i \in 1..(n + 1) |->
                                   IF i <= n THEN CountdownLine(n + 1 - i)
                                   ELSE CompleteLine])
            /\ TestsAndPrints = CountdownEvents(n)

\* the countdown from 5 has printed its six lines
C10_Witness ==
    /\ Ran
    /\ code = SrcCountdown(5)
    /\ Len(result.output) = 6
    /\ result.output[5] = CountdownLine(1)

----------------------------------------------------------------------------
(* The tokenizer *)

\* the types and texts of the tokens before the EOF token
Texts(tokens) ==
    [i \in 1..(Len(tokens) - 1) |-> <<tokens[i].type, tokens[i].value>>]

StrictlyIncreasing(seq) == \A i \in 1..(Len(seq) - 1) : seq[i] < seq[i + 1]

\* C11: for every input string tokenize terminates without throwing, every
\* iteration of its loop consumes at least one character, and the tokens
\* returned hold exactly one EOF token, the last one, whose text is empty.  A
\* character no token has yields no token and no error, and the characters
\* after it are tokenized as they are without it; a string that is not
\* terminated yields a STRING token that runs to the end of the input.
C11_TokenizeTerminates ==
    Ran =>
        /\ last.lexed.done
        /\ StrictlyIncreasing(<<0>> \o last.lexed.trace)
        /\ \A i \in 1..Len(last.lexed.trace) : last.lexed.trace[i] <= Len(code)
        /\ \E n \in 1..(Len(code) + 1) :
               /\ Len(last.lexed.tokens) = n
               /\ last.lexed.tokens[n].type = "EOF"
               /\ last.lexed.tokens[n].value = <<>>
               /\ \A i \in 1..(n - 1) : last.lexed.tokens[i].type # "EOF"
        /\ \A i \in Places(code, "@") :
               Places(SubSeq(code, 1, i - 1), "\"") = {} =>
                   Texts(last.lexed.tokens)
                       = Texts(tokenize(SubSeq(code, 1, i - 1)))
                         \o Texts(tokenize(SubSeq(code, i + 1, Len(code))))
        /\ \A i \in Places(code, "\"") :
               (Places(code, "\"") = {i} /\ Places(code, "\\") = {}) =>
                   Texts(last.lexed.tokens)
                       = Texts(tokenize(SubSeq(code, 1, i - 1)))
                         \o << <<"STRING", SubSeq(code, i + 1, Len(code))>> >>

\* a run on a string that has a character no token has between two tokens,
\* and a run on a string that is not terminated
C11_Witness ==
    /\ Ran
    /\ code = <<"1", "@", "a", "\"">>
    /\ Len(last.lexed.tokens) = 4
    /\ last.lexed.tokens[2].type = "IDENTIFIER"
    /\ last.lexed.tokens[3].type = "STRING"
    /\ last.lexed.trace = <<1, 2, 3, 4>>

----------------------------------------------------------------------------
(* The grammar of expressions *)

\* the precedence of the binary operators, in the order of BinaryOperators:
\* orrot < androt < (==, !=) < (>, <) < (+, -) < (*, /)
Precedence == <<1, 2, 3, 3, 4, 4, 5, 5, 6, 6>>

\* a op b with the operator named as the tokenizer names it
Grouped(i, a, b) == BinaryExpression(BinaryOperators[i].value, a, b)

\* C12: for an expression made of literals and binary operators the tree the
\* parser builds groups the operators by the precedence orrot < androt <
\* (==, !=) < (>, <) < (+, -) < (*, /), and operators of equal precedence to
\* the left: 24 op1 4 op2 2 is (24 op1 4) op2 2 unless op2 binds tighter than
\* op1, and then 24 op1 (4 op2 2).  `rott 1 + 2;` prints 3, `rott 1 + 2 * 3;`
\* prints 7 and `rott 10 - 4 - 3;` prints 3.
C12_PrecedenceAndAssociativity ==
    Ran =>
        /\ \A i, j \in 1..Len(BinaryOperators) :
               code = SrcChain(i, j) =>
                   /\ last.parsed.ok
                   /\ last.parsed.statements
                       = << PrintStatement(
                              IF Precedence[j] > Precedence[i]
                              THEN Grouped(i, Literal(Num(24)),
                                           Grouped(j, Literal(Num(4)),
                                                   Literal(Num(2))))
                              ELSE Grouped(j, Grouped(i, Literal(Num(24)),
                                                      Literal(Num(4))),
                                           Literal(Num(2)))) >>
        /\ code = SrcOnePlusTwo => result = Success(<< <<"3">> >>)
        /\ code = SrcPlusTimes => result = Success(<< <<"7">> >>)
        /\ code = SrcMinusMinus => result = Success(<< <<"3">> >>)

\* 24 + 4 * 2 has run and printed 32
C12_Witness ==
    /\ Ran
    /\ code = SrcChain(7, 9)
    /\ last.parsed.statements[1].expression.right.operator = s_MULTIPLY
    /\ result = Success(<< <<"3", "2">> >>)

----------------------------------------------------------------------------
(* The operands of a binary expression *)

\* what f() op g() prints after L and R, in the order of BinaryOperators:
\* 6 op 3
SixOpThree ==
    << <<"t","r","u","e">>, <<"t","r","u","e">>, <<"f","a","l","s","e">>, <<"t","r","u","e">>, <<"t","r","u","e">>, <<"f","a","l","s","e">>, <<"9">>, <<"3">>, <<"1","8">>, <<"2">> >>

UndefinedY == RuntimeError(m_UndefinedVariable \o <<"y">>)

\* C13: both operands of every binary expression, androt and orrot included,
\* are evaluated, the left one completely before the right one, and only then
\* is the operator applied; there is no short circuit.  `0 androt y` and
\* `1 orrot y` with y not declared fail with the undefined variable error;
\* with a call in each operand the lines of the left call are printed before
\* those of the right call, and an operand that fails ends the run before
\* anything to its right has run.
C13_BothOperandsLeftToRight ==
    Ran =>
        /\ code \in {SrcAndrotUndefined, SrcOrrotUndefined} =>
               result = [output |-> <<>>, error |-> UndefinedY]
        /\ \A i \in 1..Len(BinaryOperators) :
               /\ code = SrcBothCalls(i) =>
                      result = Success(<< <<"L">>, <<"R">>, SixOpThree[i] >>)
               /\ code = SrcCallThenUndefined(i) =>
                      result = [output |-> << <<"L">> >>, error |-> UndefinedY]
               /\ code = SrcUndefinedThenCall(i) =>
                      result = [output |-> <<>>, error |-> UndefinedY]

\* f() orrot g() has printed L, R and true
C13_Witness ==
    /\ Ran
    /\ code = SrcBothCalls(1)
    /\ result.output = << <<"L">>, <<"R">>, <<"t", "r", "u", "e">> >>

----------------------------------------------------------------------------
(* The errors of executeBrainRot *)

\* C14: for every source string an error returned by executeBrainRot has
\* line 0, column 0 and kind RUNTIME; kind TYPE is never produced, and no
\* parse failure reaches the caller: parse does not throw, so kind SYNTAX is
\* not returned, and a source whose every statement fails to parse returns
\* the empty output and no error.
C14_ErrorsAreRuntime ==
    Ran =>
        /\ result.error.some =>
               /\ result.error.line = 0
               /\ result.error.column = 0
               /\ result.error.type = "RUNTIME"
        /\ result.error.type \notin {"TYPE", "SYNTAX"}
        /\ last.parsed.ok
        /\ last.parsed.statements = <<>> => result = Success(<<>>)

\* a run on a source of three statements that all fail to parse
C14_Witness ==
    /\ Ran
    /\ last.parsed.dropped = 3
    /\ last.parsed.statements = <<>>
    /\ result = Success(<<>>)

----------------------------------------------------------------------------
(* The callee of a call *)

\* the top-level statements of the run that are calls
TopLevelCalls ==
    {i \in 1..Len(last.parsed.statements) :
        last.parsed.statements[i].type = "CallExpression"}

\* C15: every CallExpression node the parser produces has a bare identifier
\* as its callee and that identifier's name as its target.  (...) applied to
\* anything else is not turned into a call of a named function: `5(1);` and
\* `(1 + 2)(3);` yield no call node, and in `f(1)(2);` the call f(1) is not
\* dropped and replaced by f(2).
C15_CalleeIsIdentifier ==
    Ran =>
        /\ \A i \in TopLevelCalls :
               last.parsed.statements[i].name # UndefinedName
        /\ code \in {SrcCallNumber, SrcCallGroup} => TopLevelCalls = {}
        /\ code = SrcCallOfCall =>
               /\ last.parsed.statements[2]
                      # CallExpression(<<"f">>, <<Literal(Num(2))>>)
               /\ result.output # << <<"2">> >>

----------------------------------------------------------------------------
(* The function table across a call *)

\* C16: the function table is not part of what a call puts back: a function
\* declared or redefined by the body of a called function stays registered,
\* as declared there, after the call has returned, while the variables are
\* again those of before the call.
C16_FunctionsOutliveCall ==
    Ran =>
        /\ \A i \in 1..Len(last.log) :
               last.log[i].k = "call" =>
                   /\ last.log[i].functionsAfter = last.log[i].functionsAtEnd
                   /\ last.log[i].after = last.log[i].before
        /\ code = SrcDeclByCall => result = Success(<< <<"2">>, <<"1">> >>)
        /\ code = SrcRedefineByCall =>
               result = Success(<< <<"n", "e", "w">>, <<"1">> >>)

\* h() has returned with g redefined by its body and v, w as before it
C16_Witness ==
    /\ Ran
    /\ code = SrcRedefineByCall
    /\ \E i \in 1..Len(last.log) :
           /\ last.log[i].k = "call"
           /\ last.log[i].name = <<"h">>
           /\ last.log[i].functionsAfter # last.log[i].functions
           /\ last.log[i].atEnd # last.log[i].after
    /\ result.output = << <<"n", "e", "w">>, <<"1">> >>

----------------------------------------------------------------------------
(* The loop of parse *)

\* C17: for the tokens of every source parse terminates without throwing:
\* each iteration of its loop, whether the statement parses or fails and
\* synchronize runs, leaves the parser at least one token further, the
\* position never passes the EOF token, and previous() is not read at
\* position 0 (the read is what would throw).
C17_ParseTerminates ==
    Ran =>
        /\ last.parsed.ok
        /\ last.parsed.done
        /\ StrictlyIncreasing(last.parsed.trace)
        /\ \A i \in 1..Len(last.parsed.trace) :
               last.parsed.trace[i] < Len(last.lexed.tokens)
        /\ last.parsed.pos = Len(last.lexed.tokens) - 1
        /\ Len(last.parsed.trace)
               = 1 + Len(last.parsed.statements) + last.parsed.dropped

\* a run in which one statement has parsed and the next has failed at its
\* first token, which synchronize has passed
C17_Witness ==
    /\ Ran
    /\ last.parsed.trace = <<0, 2, 3>>
    /\ Len(last.parsed.statements) = 1
    /\ last.parsed.dropped = 1

----------------------------------------------------------------------------
(* A statement that fails to parse inside a block *)

Prints(n) == PrintStatement(Literal(Num(n)))

\* C18: when a statement in the body of a spin, ifrot, elsed or fnrot block
\* fails to parse, the whole block statement is dropped and parsing goes on
\* at the top level from the point synchronize stops at: the statements of
\* the body after that point become top-level statements and run once
\* whatever the loop, condition or function they were written in, and the
\* closing } left over is dropped without an error.
C18_BlockLostBodyKept ==
    Ran =>
        /\ code \in {SrcBadInSpin, SrcBadInIfrot, SrcBadInElsed} =>
               /\ last.parsed.statements = <<Prints(3), Prints(4)>>
               /\ last.parsed.dropped = 2
               /\ result = Success(<< <<"3">>, <<"4">> >>)
        /\ code = SrcBadInFnrot =>
               /\ last.parsed.statements
                      = <<Prints(3), Prints(4), CallExpression(<<"f">>, <<>>)>>
               /\ last.parsed.dropped = 2
               /\ result = [output |-> << <<"3">>, <<"4">> >>,
                            error |-> RuntimeError(m_UndefinedFunction
                                                   \o <<"f">>)]
        /\ code = SrcBadInNested =>
               /\ last.parsed.statements = <<Prints(3), Prints(5), Prints(4)>>
               /\ last.parsed.dropped = 3
               /\ result = Success(<< <<"3">>, <<"5">>, <<"4">> >>)

\* the spin block with a statement that does not parse has run: 3 and 4 are
\* printed though the condition of the loop is 0
C18_Witness ==
    /\ Ran
    /\ code = SrcBadInSpin
    /\ last.parsed.trace = <<0, 8, 11, 12, 15>>
    /\ result.output = << <<"3">>, <<"4">> >>

=============================================================================
